---- MODULE Spec2Model ----
(***************************************************************************)
(* INT 13 emulation (src/arch/x86/interface/pcbios/int13.c) as a state     *)
(* machine: the SAN device registry, the BIOS Data Area drive counters and *)
(* their cached copies, the INT 13 vector, and the INT 13 handler.         *)
(***************************************************************************)
EXTENDS Integers, Sequences, FiniteSets, TLC

VARIABLES
    sandevs,             \* registered SAN devices, in for_each_sandev order
    bda_equipment_word,  \* BIOS Data Area 40:10
    bda_num_drives,      \* BIOS Data Area 40:75
    equipment_word,      \* cached copy of the equipment word
    num_fdds,            \* cached number of floppy drives
    num_drives,          \* cached number of hard disk drives
    hooked,              \* INT 13 vector is installed
    fault,               \* control was lost: divide error, overwritten stack
    hooks,               \* number of drives hooked so far
    last,                \* the operation that led to this state
    xbftab,              \* the boot firmware table arena, by 16-byte chunk
    xbftab_used,         \* total used length of the arena
    installed,           \* the tables installed by the current description
    boot                 \* the position of int13_boot()

\* the description arena and its bookkeeping
xbfvars == <<xbftab, xbftab_used, installed>>

vars == <<sandevs, bda_equipment_word, bda_num_drives, equipment_word,
          num_fdds, num_drives, hooked, fault, hooks, last, xbftab,
          xbftab_used, installed, boot>>

-----------------------------------------------------------------------------
(* Fixed-width unsigned arithmetic.  A wide value is five limbs of 15 bits, *)
(* least significant first (75 bits), so that 32-bit and 64-bit C values    *)
(* and their exact, unwrapped counterparts can both be represented.         *)

Limb == 2^15

Max(a, b) == IF a >= b THEN a ELSE b
Min(a, b) == IF a <= b THEN a ELSE b

\* a wide value from a natural number below 2^31
W(n) == <<n % Limb, (n \div Limb) % Limb, n \div (Limb * Limb), 0, 0>>

\* a wide value from the two 16-bit halves of a 32-bit value
W32(hi, lo) ==
    <<lo % Limb, (lo \div Limb) + 2 * (hi % (Limb \div 2)), hi \div (Limb \div 2), 0, 0>>

RECURSIVE WAddC(_, _, _, _)
WAddC(a, b, i, c) ==
    IF i > Len(a) THEN <<>>
    ELSE LET s == a[i] + b[i] + c
         IN  <<s % Limb>> \o WAddC(a, b, i + 1, s \div Limb)

WAdd(a, b) == WAddC(a, b, 1, 0)

RECURSIVE WSubC(_, _, _, _)
WSubC(a, b, i, c) ==
    IF i > Len(a) THEN <<>>
    ELSE LET s == a[i] - b[i] - c
         IN  <<(s + Limb) % Limb>> \o WSubC(a, b, i + 1, IF s < 0 THEN 1 ELSE 0)

WSub(a, b) == WSubC(a, b, 1, 0)

RECURSIVE WMulC(_, _, _, _)
WMulC(a, n, i, c) ==
    IF i > Len(a) THEN <<>>
    ELSE LET s == a[i] * n + c
         IN  <<s % Limb>> \o WMulC(a, n, i + 1, s \div Limb)

\* a wide value times a natural number below 2^15
WMulSmall(a, n) == WMulC(a, n, 1, 0)

\* a wide value times Limb^k
WShift(a, k) == [i \in 1..Len(a) |-> IF i <= k THEN 0 ELSE a[i - k]]

RECURSIVE WMulAcc(_, _, _)
WMulAcc(a, b, i) ==
    IF i > Len(b) THEN W(0)
    ELSE WAdd(WShift(WMulSmall(a, b[i]), i - 1), WMulAcc(a, b, i + 1))

WMul(a, b) == WMulAcc(a, b, 1)

RECURSIVE WCmpFrom(_, _, _)
WCmpFrom(a, b, i) ==
    IF i = 0 THEN 0
    ELSE IF a[i] < b[i] THEN -1
    ELSE IF a[i] > b[i] THEN 1
    ELSE WCmpFrom(a, b, i - 1)

WLt(a, b) == WCmpFrom(a, b, Len(a)) < 0
WLe(a, b) == WCmpFrom(a, b, Len(a)) <= 0

RECURSIVE WDivC(_, _, _, _)
WDivC(a, n, i, r) ==
    IF i = 0 THEN <<>>
    ELSE LET cur == r * Limb + a[i]
         IN  WDivC(a, n, i - 1, cur % n) \o <<cur \div n>>

\* a wide value divided by a natural number in 1 .. 2^15 - 1
WDivSmall(a, n) == WDivC(a, n, Len(a), 0)

\* truncation to uint32_t and to uint64_t
U32(a) == <<a[1], a[2], a[3] % 4, 0, 0>>
U64(a) == <<a[1], a[2], a[3], a[4], a[5] % 16>>

WIsZero(a) == a = W(0)

\* the low and the high 16 bits of a 32-bit value
Lo16(a) == a[1] + (a[2] % 2) * Limb
Hi16(a) == (a[2] \div 2) + a[3] * (Limb \div 2)

\* the largest k in lo..hi with k * d <= n (d # 0, lo * d <= n)
RECURSIVE WQuotCap(_, _, _, _)
WQuotCap(n, d, lo, hi) ==
    IF lo = hi THEN lo
    ELSE LET mid == (lo + hi + 1) \div 2
         IN  IF WLe(WMulSmall(d, mid), n)
             THEN WQuotCap(n, d, mid, hi)
             ELSE WQuotCap(n, d, lo, mid - 1)

-----------------------------------------------------------------------------
(* Constants of the INT 13 interface (int13.h). *)

INT13_BLKSIZE == 512

INT13_STATUS_INVALID == 1
INT13_STATUS_READ_ERROR == 4
INT13_STATUS_RESET_FAILED == 5

INT13_RESET == 0
INT13_GET_LAST_STATUS == 1
INT13_READ_SECTORS == 2
INT13_WRITE_SECTORS == 3
INT13_GET_PARAMETERS == 8
INT13_GET_DISK_TYPE == 21
INT13_EXTENSION_CHECK == 65
INT13_EXTENDED_READ == 66
INT13_EXTENDED_WRITE == 67
INT13_EXTENDED_VERIFY == 68
INT13_EXTENDED_SEEK == 71
INT13_GET_EXTENDED_PARAMETERS == 72
INT13_CDROM_STATUS_TERMINATE == 75
INT13_CDROM_READ_BOOT_CATALOG == 77

INT13_DISK_TYPE_FDD == 1
INT13_DISK_TYPE_HDD == 3
INT13_FDD_TYPE_1M44 == 4
INT13_EXTENSION_LINEAR == 1
INT13_EXTENSION_EDD == 4
INT13_EXTENSION_64BIT == 8
INT13_EXTENSION_VER_3_0 == 48

\* the largest cylinder count the handler ever infers
MaxCylinders == 1024

\* is bit 7 of an 8-bit drive number set
Bit7(drive) == drive >= 128

\* a fixed-disk count taken as the natural number without its bit 7
Or80_forgotten(x) == x

\* x | 0x80 on an 8-bit value
Or80(x) == IF x >= 128 THEN x ELSE x + 128

\* x & 0x7f on an 8-bit value
And7f(x) == x % 128

-----------------------------------------------------------------------------
(* Geometry inference. *)

\* a capacity converted to 32 bits without the cap
int13_capacity32_truncates(capacity) == U32(capacity)

\* the capacity in blocks, capped to 0xffffffff
int13_capacity32(capacity) ==
    IF WLe(capacity, W32(65535, 65535)) THEN capacity ELSE W32(65535, 65535)

int13_is_fdd(drive) == ~Bit7(drive)

\* one step of the partition table scan: entry p applied to the guesses g
hdd_scan_step(p, g) ==
    IF p.type = 0 THEN g
    ELSE LET s1 == IF p.start_c = 0 /\ p.start_h # 0
                   THEN WDivSmall(U32(WSub(WAdd(p.start, W(1)), W(p.start_s))),
                                  p.start_h)
                   ELSE g.sectors
             h1 == IF p.end_h + 1 > g.heads THEN p.end_h + 1 ELSE g.heads
             s2 == IF WLt(s1, W(p.end_s)) THEN W(p.end_s) ELSE s1
         IN  [heads |-> h1, sectors |-> s2]

RECURSIVE hdd_scan(_, _, _)
hdd_scan(parts, i, g) ==
    IF i > Len(parts) THEN g
    ELSE hdd_scan(parts, i + 1, hdd_scan_step(parts[i], g))

\* the guess for a hard disk whose partition table has been read
int13_guess_geometry_hdd(parts) ==
    LET g == hdd_scan(parts, 1, [heads |-> 0, sectors |-> W(0)])
    IN  [heads   |-> IF g.heads = 0 THEN 255 ELSE g.heads,
         sectors |-> IF WIsZero(g.sectors) THEN W(63) ELSE g.sectors]

\* recognised floppy geometries: <<cylinders, heads, sectors>>
int13_fdd_geometries ==
    << <<40, 1, 8>>,  <<40, 1, 9>>,  <<40, 2, 8>>,  <<40, 1, 9>>,
       <<80, 2, 8>>,  <<80, 2, 9>>,  <<80, 2, 15>>, <<80, 2, 18>>,
       <<80, 2, 20>>, <<80, 2, 21>>, <<82, 2, 21>>, <<83, 2, 21>>,
       <<80, 2, 22>>, <<80, 2, 23>>, <<80, 2, 24>>, <<80, 2, 36>>,
       <<80, 2, 39>>, <<80, 2, 40>>, <<80, 2, 44>>, <<80, 2, 48>> >>

RECURSIVE fdd_scan(_, _)
fdd_scan(blocks, i) ==
    IF i > Len(int13_fdd_geometries) THEN [heads |-> 2, sectors |-> W(18)]
    ELSE LET g == int13_fdd_geometries[i]
         IN  IF W(g[1] * g[2] * g[3]) = blocks
             THEN [heads |-> g[2], sectors |-> W(g[3])]
             ELSE fdd_scan(blocks, i + 1)

\* blocks is the capacity converted to unsigned int
int13_guess_geometry_fdd(capacity) == fdd_scan(U32(capacity), 1)

\* the geometry fields of device d after a successful guess g; div0 tells
\* that blocks_per_cyl was zero when the division was reached
int13_guess_geometry(d, g) ==
    LET heads   == IF d.heads = 0 THEN g.heads ELSE d.heads
        sectors == IF WIsZero(d.sectors_per_track) THEN g.sectors
                   ELSE d.sectors_per_track
        blocks  == int13_capacity32(d.capacity)
        blocks_per_cyl == U32(WMulSmall(sectors, heads))
        div0    == d.cylinders = 0 /\ WIsZero(blocks_per_cyl)
    IN  [d EXCEPT !.heads = heads,
                  !.sectors_per_track = sectors,
                  !.cylinders =
                      IF d.cylinders # 0 THEN d.cylinders
                      ELSE IF div0 THEN 0
                      ELSE WQuotCap(blocks, blocks_per_cyl, 0, MaxCylinders),
                  !.div0 = div0]

-----------------------------------------------------------------------------
(* BIOS drive counts. *)

\* the floppy count encoded in an equipment word
FddCount(ew) == IF ew % 2 = 1 THEN ((ew \div 64) % 4) + 1 ELSE 0

\* the equipment word with its whole low byte cleared
EwClearLowByte(ew) == ew - (ew % 256)

\* the equipment word with bit 0 and bits 7:6 cleared
EwClear(ew) == ew - (ew % 2) - ((ew \div 64) % 4) * 64

\* the equipment word with the floppy count n encoded
EwEncode(ew, n) ==
    IF n # 0 THEN EwClear(ew) + 1 + ((n - 1) % 4) * 64 ELSE EwClear(ew)

\* the count a device requires of the counter of its class
required(d) == And7f(Max(d.drive, d.natural_drive)) + 1

RECURSIVE sync_scan(_, _, _)
sync_scan(devs, i, c) ==
    IF i > Len(devs) THEN c
    ELSE LET d == devs[i]
         IN  sync_scan(devs, i + 1,
                 IF int13_is_fdd(d.drive)
                 THEN [c EXCEPT !.num_fdds = Max(@, required(d))]
                 ELSE [c EXCEPT !.num_drives = Max(@, required(d))])

\* the cached counters after int13_sync_num_drives(), from the BDA values
\* found; the same values are written back to the BDA
int13_sync_num_drives(devs, ew, nd) ==
    LET c == sync_scan(devs, 1, [num_fdds |-> FddCount(ew), num_drives |-> nd])
    IN  [equipment_word |-> EwEncode(ew, c.num_fdds),
         num_fdds       |-> c.num_fdds,
         num_drives     |-> c.num_drives]

\* does int13_check_num_drives() find the BDA changed
int13_check_num_drives(ew, nd) == ew # equipment_word \/ nd # num_drives

-----------------------------------------------------------------------------
(* The register file of a call (struct i386_all_regs) and the packet the   *)
(* caller keeps at ds:si.  One packet shape serves the three layouts: the  *)
(* disk address packet (bufsize, count, segment:offset, lba, buffer_phys,  *)
(* long_count), the drive parameter buffer (bufsize) and the boot catalog  *)
(* command (count, buffer_phys as the 32-bit buffer, start).               *)

CH(r) == r.cx \div 256
CL(r) == r.cx % 256
DH(r) == r.dx \div 256
DL(r) == r.dx % 256

SetCH(r, v) == [r EXCEPT !.cx = (v % 256) * 256 + (@ % 256)]
SetCL(r, v) == [r EXCEPT !.cx = (@ \div 256) * 256 + (v % 256)]
SetDH(r, v) == [r EXCEPT !.dx = (v % 256) * 256 + (@ % 256)]
SetDL(r, v) == [r EXCEPT !.dx = (@ \div 256) * 256 + (v % 256)]
SetBL(r, v) == [r EXCEPT !.bx = (@ \div 256) * 256 + (v % 256)]

\* bitwise or of two natural numbers
RECURSIVE BitOr(_, _)
BitOr(a, b) ==
    IF a = 0 THEN b
    ELSE IF b = 0 THEN a
    ELSE Max(a % 2, b % 2) + 2 * BitOr(a \div 2, b \div 2)

\* the low nbits bits of a wide value
WLowBits(a, nbits) ==
    [i \in 1..Len(a) |->
        LET keep == Max(0, Min(15, nbits - 15 * (i - 1)))
        IN  a[i] % (2^keep)]

\* the value of the data16 segment and the offset of int13_fdd_params in it
rm_ds == 36864
int13_fdd_params == 256

\* layout of struct int13_disk_address
ADDR_OFF_BUFFER_PHYS == 16
ADDR_OFF_LONG_COUNT == 24
ADDR_SIZEOF == 32

\* layout of struct int13_disk_parameters
PARAMS_OFF_DPTE == 26
PARAMS_OFF_DPI == 30
PARAMS_SIZEOF == 74

\* sizeof ( struct int13_cdrom_specification )
CDROM_SPEC_SIZEOF == 19

INT13_FL_DMA_TRANSPARENT == 1
INT13_FL_CHS_VALID == 2
INT13_MAX_CHS_SECTORS == 15482880

\* what a command handler hands back: the status, the registers, the block
\* device requests issued, the writes to the caller's memory, the number of
\* bytes copied into the handler's local packet
Result(status, regs, io, mem, copied) ==
    [status |-> status, regs |-> regs, io |-> io, mem |-> mem, copied |-> copied]

IoReq(op, lba, count, buffer) ==
    [op |-> op, lba |-> lba, count |-> count, buffer |-> buffer]

real_to_virt(segment, offset) == <<"real", segment, offset>>
phys_to_virt(phys) == <<"phys", phys>>

\* INT 13, 00
int13_reset(d, r, ok) ==
    Result(IF ok THEN 0 ELSE -INT13_STATUS_RESET_FAILED, r,
           <<IoReq("reset", W(0), W(0), <<>>)>>, <<>>, 0)

\* INT 13, 01
\* a get-last-status that reports success whatever the last status
int13_get_last_status_forgets(d, r) == Result(0, r, <<>>, <<>>, 0)

\* a get-last-status that reports an error as the disk type code and the
\* disk type code as an error
int13_get_last_status_inverts(d, r) ==
    Result(IF d.last_status < 0 THEN INT13_DISK_TYPE_HDD
           ELSE IF d.last_status = INT13_DISK_TYPE_HDD
           THEN -INT13_STATUS_INVALID ELSE d.last_status, r, <<>>, <<>>, 0)

int13_get_last_status(d, r) == Result(d.last_status, r, <<>>, <<>>, 0)

\* the cylinder, head and sector a legacy call addresses
rw_cylinder(r) == ((CL(r) \div 64) * 256) + CH(r)
rw_head(r) == DH(r)
rw_sector(r) == CL(r) % 64

\* a range check that lets sector 0 through
rw_out_of_range_sector0(d, r) ==
    \/ rw_cylinder(r) >= d.cylinders
    \/ rw_head(r) >= d.heads
    \/ WLt(d.sectors_per_track, W(rw_sector(r)))

\* is the address outside the drive's geometry
rw_out_of_range(d, r) ==
    \/ rw_cylinder(r) >= d.cylinders
    \/ rw_head(r) >= d.heads
    \/ rw_sector(r) < 1
    \/ WLt(d.sectors_per_track, W(rw_sector(r)))

\* the block address, computed in unsigned int
rw_lba(d, cylinder, head, sector) ==
    U32(WSub(WAdd(WMul(W(cylinder * d.heads + head), d.sectors_per_track),
                  W(sector)), W(1)))

\* INT 13, 02 and 03
int13_rw_sectors(d, r, op, ok) ==
    IF d.blksize # INT13_BLKSIZE
    THEN Result(-INT13_STATUS_INVALID, r, <<>>, <<>>, 0)
    ELSE IF rw_out_of_range(d, r)
    THEN Result(-INT13_STATUS_INVALID, r, <<>>, <<>>, 0)
    ELSE Result(IF ok THEN 0 ELSE -INT13_STATUS_READ_ERROR, r,
                <<IoReq(op, rw_lba(d, rw_cylinder(r), rw_head(r), rw_sector(r)),
                        W(r.al), real_to_virt(r.es, r.bx))>>,
                <<>>, 0)

\* INT 13, 08
int13_get_parameters(d, r, nfdds, ndrives) ==
    LET max_cylinder_lo == (d.cylinders + 1023) % 1024    \* ( cylinders - 1 ) & 0x3ff
        max_head        == (d.heads + 255) % 256
        max_sector      == Lo16(d.sectors_per_track) % 256
        r1 == SetCH(r, max_cylinder_lo % 256)
        r2 == SetCL(r1, BitOr((max_cylinder_lo \div 256) * 64, max_sector))
        r3 == SetDH(r2, max_head)
        r4 == SetDL(r3, IF int13_is_fdd(d.drive) THEN nfdds ELSE ndrives)
        r5 == IF int13_is_fdd(d.drive)
              THEN [SetBL(r4, INT13_FDD_TYPE_1M44)
                        EXCEPT !.es = rm_ds, !.di = int13_fdd_params]
              ELSE r4
    IN  IF d.blksize # INT13_BLKSIZE
        THEN Result(-INT13_STATUS_INVALID, r, <<>>, <<>>, 0)
        ELSE Result(0, r5, <<>>, <<>>, 0)

\* INT 13, 15
int13_get_disk_type(d, r) ==
    IF int13_is_fdd(d.drive)
    THEN Result(INT13_DISK_TYPE_FDD, r, <<>>, <<>>, 0)
    ELSE LET blocks == int13_capacity32(d.capacity)
         IN  Result(INT13_DISK_TYPE_HDD,
                    [r EXCEPT !.cx = Hi16(blocks), !.dx = Lo16(blocks)],
                    <<>>, <<>>, 0)

\* an installation check that does not look at BX
int13_extension_check_any_bx(d, r) ==
    IF ~int13_is_fdd(d.drive)
    THEN Result(INT13_EXTENSION_VER_3_0,
                [r EXCEPT !.bx = 43605,
                          !.cx = INT13_EXTENSION_LINEAR + INT13_EXTENSION_EDD
                                 + INT13_EXTENSION_64BIT],
                <<>>, <<>>, 0)
    ELSE Result(-INT13_STATUS_INVALID, r, <<>>, <<>>, 0)

\* INT 13, 41
int13_extension_check(d, r) ==
    IF r.bx = 21930 /\ ~int13_is_fdd(d.drive)
    THEN Result(INT13_EXTENSION_VER_3_0,
                [r EXCEPT !.bx = 43605,
                          !.cx = INT13_EXTENSION_LINEAR + INT13_EXTENSION_EDD
                                 + INT13_EXTENSION_64BIT],
                <<>>, <<>>, 0)
    ELSE Result(-INT13_STATUS_INVALID, r, <<>>, <<>>, 0)

\* the local disk address packet after memset and copy_from_real of bufsize bytes
addr_copy(pkt) ==
    [pkt EXCEPT
        !.buffer_phys = WLowBits(@, 8 * Max(0, Min(8, pkt.bufsize - ADDR_OFF_BUFFER_PHYS))),
        !.long_count  = WLowBits(@, 8 * Max(0, Min(4, pkt.bufsize - ADDR_OFF_LONG_COUNT)))]

\* an entry check that lets floppy drives through
extended_rw_rejects_small(d, pkt) == pkt.bufsize < ADDR_OFF_BUFFER_PHYS

\* the checks on entry: no extended transfers on floppy drives, and the
\* packet must reach its buffer_phys field
extended_rw_rejects(d, pkt) ==
    \/ int13_is_fdd(d.drive)
    \/ pkt.bufsize < ADDR_OFF_BUFFER_PHYS

\* INT 13, 42 and 43
int13_extended_rw(d, r, pkt, op, ok) ==
    IF extended_rw_rejects(d, pkt)
    THEN Result(-INT13_STATUS_INVALID, r, <<>>, <<>>, 0)
    ELSE LET addr == addr_copy(pkt)
             buffer == IF addr.count = 255
                          \/ (addr.segment = 65535 /\ addr.offset = 65535)
                       THEN phys_to_virt(addr.buffer_phys)
                       ELSE real_to_virt(addr.segment, addr.offset)
         IN  IF addr.count > 127 /\ addr.count # 255
             THEN Result(-INT13_STATUS_INVALID, r, <<>>, <<>>, pkt.bufsize)
             ELSE LET count == IF addr.count <= 127 THEN W(addr.count)
                               ELSE addr.long_count
                  IN  IF ok
                      THEN Result(0, r, <<IoReq(op, addr.lba, count, buffer)>>,
                                  <<>>, pkt.bufsize)
                      ELSE Result(-INT13_STATUS_READ_ERROR, r,
                                  <<IoReq(op, addr.lba, count, buffer)>>,
                                  <<[what |-> "addr.count", len |-> 1, val |-> 0]>>,
                                  pkt.bufsize)

\* INT 13, 44
int13_extended_verify(d, r) == Result(-INT13_STATUS_INVALID, r, <<>>, <<>>, 0)

\* INT 13, 47
int13_extended_seek(d, r) == Result(0, r, <<>>, <<>>, 0)

\* a record copied whole whatever the caller declared
params_len_unclamped(bufsize, dpi_ok) ==
    IF dpi_ok THEN PARAMS_SIZEOF ELSE PARAMS_OFF_DPI

\* the number of bytes of the parameter record copied to the caller
params_len(bufsize, dpi_ok) ==
    Min(IF dpi_ok THEN PARAMS_SIZEOF ELSE PARAMS_OFF_DPI, bufsize)

\* a handler that refuses every request
int13_get_extended_parameters_refuses(d, r, pkt, dpi_ok) ==
    Result(-INT13_STATUS_INVALID, r, <<>>, <<>>, 0)

\* INT 13, 48; dpi_ok tells whether int13_device_path_info() succeeded
int13_get_extended_parameters(d, r, pkt, dpi_ok) ==
    LET chs_valid == d.cylinders < 1024 /\ WLe(d.capacity, W(INT13_MAX_CHS_SECTORS))
        params ==
            [bufsize  |-> IF pkt.bufsize < PARAMS_OFF_DPI THEN PARAMS_OFF_DPTE
                          ELSE PARAMS_OFF_DPI,
             flags    |-> INT13_FL_DMA_TRANSPARENT
                          + (IF chs_valid THEN INT13_FL_CHS_VALID ELSE 0),
             cylinders |-> d.cylinders,
             heads    |-> d.heads,
             sectors_per_track |-> d.sectors_per_track,
             sectors  |-> d.capacity,
             sector_size |-> d.blksize % 65536,
             dpi      |-> dpi_ok]
    IN  IF pkt.bufsize < PARAMS_OFF_DPTE
        THEN Result(-INT13_STATUS_INVALID, r, <<>>, <<>>, 0)
        ELSE Result(0, r, <<>>,
                    <<[what |-> "params", len |-> params_len(pkt.bufsize, dpi_ok),
                       val |-> params]>>, 0)

\* INT 13, 4b
int13_cdrom_status_terminate(d, r) ==
    IF ~d.is_cdrom
    THEN Result(-INT13_STATUS_INVALID, r, <<>>, <<>>, 0)
    ELSE Result(0, r, <<>>,
                <<[what |-> "specification", len |-> CDROM_SPEC_SIZEOF,
                   val |-> [size |-> CDROM_SPEC_SIZEOF, drive |-> d.drive]]>>, 0)

\* INT 13, 4d
int13_cdrom_read_boot_catalog(d, r, pkt, ok) ==
    IF WIsZero(d.boot_catalog)
    THEN Result(-INT13_STATUS_INVALID, r, <<>>, <<>>, 0)
    ELSE Result(IF ok THEN 0 ELSE -INT13_STATUS_READ_ERROR, r,
                <<IoReq("read", U32(WAdd(d.boot_catalog, pkt.start)),
                        W(pkt.count), phys_to_virt(pkt.buffer_phys))>>,
                <<>>, 0)

\* the switch of int13(): the handler of the command
int13_command(d, r, pkt, ok, dpi_ok, nfdds, ndrives) ==
    CASE r.ah = INT13_RESET -> int13_reset(d, r, ok)
      [] r.ah = INT13_GET_LAST_STATUS -> int13_get_last_status(d, r)
      [] r.ah = INT13_READ_SECTORS -> int13_rw_sectors(d, r, "read", ok)
      [] r.ah = INT13_WRITE_SECTORS -> int13_rw_sectors(d, r, "write", ok)
      [] r.ah = INT13_GET_PARAMETERS -> int13_get_parameters(d, r, nfdds, ndrives)
      [] r.ah = INT13_GET_DISK_TYPE -> int13_get_disk_type(d, r)
      [] r.ah = INT13_EXTENSION_CHECK -> int13_extension_check(d, r)
      [] r.ah = INT13_EXTENDED_READ -> int13_extended_rw(d, r, pkt, "read", ok)
      [] r.ah = INT13_EXTENDED_WRITE -> int13_extended_rw(d, r, pkt, "write", ok)
      [] r.ah = INT13_EXTENDED_VERIFY -> int13_extended_verify(d, r)
      [] r.ah = INT13_EXTENDED_SEEK -> int13_extended_seek(d, r)
      [] r.ah = INT13_GET_EXTENDED_PARAMETERS ->
             int13_get_extended_parameters(d, r, pkt, dpi_ok)
      [] r.ah = INT13_CDROM_STATUS_TERMINATE -> int13_cdrom_status_terminate(d, r)
      [] r.ah = INT13_CDROM_READ_BOOT_CATALOG ->
             int13_cdrom_read_boot_catalog(d, r, pkt, ok)
      [] OTHER -> Result(-INT13_STATUS_INVALID, r, <<>>, <<>>, 0)

\* a resolution that hands every call to the first registered drive
int13_resolve_first(devs, i, bios_drive, command) ==
    IF Len(devs) = 0 THEN [kind |-> "none", idx |-> 0]
    ELSE [kind |-> "dispatch", idx |-> 1]

\* the drive a call resolves to: the first device of the list that the call
\* addresses by its number, by its natural number or as any CD-ROM
RECURSIVE int13_resolve(_, _, _, _)
int13_resolve(devs, i, bios_drive, command) ==
    IF i > Len(devs) THEN [kind |-> "none", idx |-> 0]
    ELSE IF bios_drive # devs[i].drive
    THEN IF bios_drive = devs[i].natural_drive
         THEN [kind |-> "remap", idx |-> i]
         ELSE IF And7f(bios_drive) = 127
                 /\ command = INT13_CDROM_STATUS_TERMINATE
                 /\ devs[i].is_cdrom
         THEN [kind |-> "dispatch", idx |-> i]
         ELSE int13_resolve(devs, i + 1, bios_drive, command)
    ELSE [kind |-> "dispatch", idx |-> i]

\* a status convention that clears the error indicator on every result
int13_status_clears(r, status) ==
    [r EXCEPT !.ah = IF status < 0 THEN (-status) % 256 ELSE status % 256,
              !.cf = FALSE,
              !.of = TRUE]

\* the status register and the flags once the command returned status
int13_status(r, status) ==
    [r EXCEPT !.ah = IF status < 0 THEN (-status) % 256 ELSE status % 256,
              !.cf = IF status < 0 THEN @ ELSE FALSE,
              !.of = TRUE]

-----------------------------------------------------------------------------
(* Block devices that can be hooked.  parts is the partition table of the  *)
(* first block, each entry decoded as PART_CYLINDER, PART_HEAD and          *)
(* PART_SECTOR decode it; boot_catalog is the sector the El Torito boot     *)
(* record at ELTORITO_LBA names, zero when the record has no such           *)
(* signature.                                                               *)

Part(type, start_c, start_h, start_s, end_h, end_s, start) ==
    [type |-> type, start_c |-> start_c, start_h |-> start_h,
     start_s |-> start_s, end_h |-> end_h, end_s |-> end_s, start |-> start]

NoPart == Part(0, 0, 0, 0, 0, 0, W(0))

Media(name) ==
    CASE name = "empty_hdd" ->
           [blksize |-> 512, capacity |-> W(2097152), is_cdrom |-> FALSE,
            parts |-> <<NoPart, NoPart, NoPart, NoPart>>, boot_catalog |-> W(0)]
      [] name = "small_hdd" ->
           \* one partition from 0/1/1 at block 4 to head 1, sector 4
           [blksize |-> 512, capacity |-> W(40), is_cdrom |-> FALSE,
            parts |-> <<Part(131, 0, 1, 1, 1, 4, W(4)), NoPart, NoPart, NoPart>>,
            boot_catalog |-> W(0)]
      [] name = "wide_hdd" ->
           \* one partition from 0/1/1 at block 0x01010102 to head 254, sector 63
           [blksize |-> 512, capacity |-> W(2097152), is_cdrom |-> FALSE,
            parts |-> <<Part(131, 0, 1, 1, 254, 63, W32(257, 258)),
                        NoPart, NoPart, NoPart>>,
            boot_catalog |-> W(0)]
      [] name = "tall_hdd" ->
           \* one partition from 1/0/1 to head 255, sector 63
           [blksize |-> 512, capacity |-> W(2097152), is_cdrom |-> FALSE,
            parts |-> <<Part(131, 1, 0, 1, 255, 63, W(16128)),
                        NoPart, NoPart, NoPart>>,
            boot_catalog |-> W(0)]
      [] name = "huge_hdd" ->
           \* 2^32 + 80325 blocks, no partitions
           [blksize |-> 512, capacity |-> WAdd(W32(65535, 65535), W(80326)),
            is_cdrom |-> FALSE,
            parts |-> <<NoPart, NoPart, NoPart, NoPart>>, boot_catalog |-> W(0)]
      [] name = "floppy" ->
           [blksize |-> 512, capacity |-> W(2880), is_cdrom |-> FALSE,
            parts |-> <<NoPart, NoPart, NoPart, NoPart>>, boot_catalog |-> W(0)]
      [] name \in {"floppy_360", "floppy_2000", "floppy_40000"} ->
           [blksize |-> 512,
            capacity |-> W(CASE name = "floppy_360" -> 360
                             [] name = "floppy_2000" -> 2000
                             [] OTHER -> 40000),
            is_cdrom |-> FALSE,
            parts |-> <<NoPart, NoPart, NoPart, NoPart>>, boot_catalog |-> W(0)]
      [] name = "huge_floppy" ->
           \* 2^32 + 320 blocks
           [blksize |-> 512, capacity |-> WAdd(W32(65535, 65535), W(321)),
            is_cdrom |-> FALSE,
            parts |-> <<NoPart, NoPart, NoPart, NoPart>>, boot_catalog |-> W(0)]
      [] name = "cdrom" ->
           [blksize |-> 2048, capacity |-> W(1000), is_cdrom |-> TRUE,
            parts |-> <<NoPart, NoPart, NoPart, NoPart>>, boot_catalog |-> W(20)]
      [] name = "plain_cdrom" ->
           \* an optical disc without an El Torito boot record
           [blksize |-> 2048, capacity |-> W(1000), is_cdrom |-> TRUE,
            parts |-> <<NoPart, NoPart, NoPart, NoPart>>, boot_catalog |-> W(0)]
      [] name = "iso_hdd" ->
           \* a disc image with an El Torito boot record, on 512-byte blocks
           [blksize |-> 512, capacity |-> W(4000), is_cdrom |-> FALSE,
            parts |-> <<NoPart, NoPart, NoPart, NoPart>>, boot_catalog |-> W(20)]
      [] name = "tiny_hdd" ->
           \* fewer blocks than one cylinder of 255 heads and 63 sectors
           [blksize |-> 512, capacity |-> W(1000), is_cdrom |-> FALSE,
            parts |-> <<NoPart, NoPart, NoPart, NoPart>>, boot_catalog |-> W(0)]

\* error codes of errno.h, by their sign and identity only
ENOMEM == 12
EIO == 5
EADDRINUSE == 98
ENOSPC == 28
ENOEXEC == 8
ENOTSUP == 95
ECANCELED == 125

\* maximum size of the boot firmware tables, and their alignment
XBFTAB_SIZE == 768
XBFTAB_ALIGN == 16

-----------------------------------------------------------------------------
(* The operations. *)

\* at most this many devices are hooked at once
MaxDevs == 2

\* at most this many drives are hooked in a run
MaxHooks == 2

NoRegs ==
    [ah |-> 0, al |-> 0, bx |-> 0, cx |-> 0, dx |-> 0, es |-> 0, di |-> 0,
     ds |-> 0, si |-> 0, cf |-> FALSE, of |-> FALSE]

NoPkt ==
    [bufsize |-> 0, count |-> 0, segment |-> 0, offset |-> 0, lba |-> W(0),
     buffer_phys |-> W(0), long_count |-> W(0), start |-> W(0)]

\* the validation and boot entries of an El Torito boot catalog
Catalog(platform_id, indicator, media_type, load_segment, length, start) ==
    [platform_id |-> platform_id, indicator |-> indicator,
     media_type |-> media_type, load_segment |-> load_segment,
     length |-> length, start |-> start]

NoCatalog == Catalog(0, 0, 0, 0, 0, W(0))

\* int13_boot() is not running
NoBoot == [pc |-> "idle", drive |-> 0, rc |-> 0, address |-> <<0, 0>>,
           path |-> "none", tried |-> <<>>, catalog |-> NoCatalog,
           jumped |-> <<>>, image_io |-> <<>>]

NoLast ==
    [op |-> "init", drive |-> 0, regs_in |-> NoRegs, pkt |-> NoPkt,
     regs |-> NoRegs, kind |-> "none", idx |-> 0, status |-> 0,
     io |-> <<>>, mem |-> <<>>, copied |-> 0, chained |-> FALSE,
     ret_dl |-> <<"dl", 0>>, rc |-> 0, vec |-> <<>>, synced |-> FALSE,
     prev |-> <<>>, fail |-> "none", io_ok |-> TRUE, len |-> 0,
     first |-> <<>>]

\* sandev_find(): the place of the device numbered drive, 0 when there is none
sandev_find(devs, drive) ==
    IF \E i \in 1..Len(devs) : devs[i].drive = drive
    THEN CHOOSE i \in 1..Len(devs) : devs[i].drive = drive
    ELSE 0

\* register_sandev(): the list with the device added at its tail
register_sandev(devs, d) == Append(devs, d)

\* unregister_sandev(): the list without its i-th device
unregister_sandev(devs, i) ==
    [j \in 1..(Len(devs) - 1) |-> IF j < i THEN devs[j] ELSE devs[j + 1]]

have_sandevs(devs) == devs # <<>>

\* the steps at which int13_hook() can fail for medium m hooked as drive drv
hook_fail_ok(fail, m, drv, in_use) ==
    CASE fail = "none"     -> ~in_use
      [] fail = "alloc"    -> TRUE
      [] fail = "register" -> TRUE
      [] fail = "scratch"  -> ~in_use
      [] fail = "eltorito" -> ~in_use /\ m.is_cdrom
      [] fail = "geometry" -> /\ ~in_use
                              /\ m.blksize = INT13_BLKSIZE
                              /\ ~int13_is_fdd(drv)

\* what int13_hook() returns when it fails at step fail; rc still holds
\* register_sandev()'s zero when the scratch area cannot be allocated
hook_rc(fail, in_use) ==
    CASE fail = "alloc"    -> -ENOMEM
      [] fail = "register" -> IF in_use THEN -EADDRINUSE ELSE -EIO
      [] fail = "scratch"  -> 0
      [] OTHER             -> -EIO

\* the device as registered and described from its medium
hook_device(drv, natural_drive, m) ==
    LET d0 == [drive |-> drv, natural_drive |-> natural_drive,
               cylinders |-> 0, heads |-> 0, sectors_per_track |-> W(0),
               boot_catalog |-> W(0), last_status |-> 0,
               is_cdrom |-> m.is_cdrom, blksize |-> m.blksize,
               capacity |-> m.capacity, div0 |-> FALSE, res |-> <<>>,
               parts |-> m.parts]
        d1 == IF m.is_cdrom THEN [d0 EXCEPT !.boot_catalog = m.boot_catalog]
              ELSE d0
        g  == IF int13_is_fdd(drv) THEN int13_guess_geometry_fdd(m.capacity)
              ELSE int13_guess_geometry_hdd(m.parts)
    IN  IF m.blksize = INT13_BLKSIZE THEN int13_guess_geometry(d1, g) ELSE d1

\* the INT 13 vector after a successful hook: hooked if it was not
vector_after_hook(was_hooked, need_hook) ==
    IF need_hook THEN TRUE ELSE was_hooked

\* the calls a successful hook makes to the interrupt vector collaborator
vector_calls_hook(need_hook) == IF need_hook THEN <<"install">> ELSE <<>>

\* an unhook that removes the vector whatever remains registered
vector_after_unhook_always(was_hooked, devs) == FALSE

\* the INT 13 vector after an unhook that leaves the devices devs
vector_after_unhook(was_hooked, devs) ==
    IF ~have_sandevs(devs) THEN FALSE ELSE was_hooked

\* the calls an unhook makes to the interrupt vector collaborator
vector_calls_unhook(devs) ==
    IF ~have_sandevs(devs) THEN <<"remove">> ELSE <<>>

int13_hook(drive, name, fail) ==
    /\ ~fault
    /\ last = NoLast
    /\ boot = NoBoot
    /\ UNCHANGED <<xbfvars, boot>>
    /\ Len(sandevs) < MaxDevs
    /\ hooks < MaxHooks
    /\ hooks' = IF fail = "none" THEN hooks + 1 ELSE hooks
    /\ LET m == Media(name)
           need_hook == ~have_sandevs(sandevs)
           s1 == int13_sync_num_drives(sandevs, bda_equipment_word, bda_num_drives)
           natural_drive == IF Bit7(drive) THEN Or80(s1.num_drives)
                            ELSE s1.num_fdds
           drv == IF And7f(drive) = 127 THEN natural_drive ELSE drive
           in_use == sandev_find(sandevs, drv) # 0
           d == hook_device(drv, natural_drive, m)
           devs == register_sandev(sandevs, d)
           s2 == int13_sync_num_drives(devs, s1.equipment_word, s1.num_drives)
       IN  /\ hook_fail_ok(fail, m, drv, in_use)
           /\ IF fail # "none"
              THEN /\ sandevs' = sandevs
                   /\ hooked' = hooked
                   /\ fault' = fault
                   /\ bda_equipment_word' = s1.equipment_word
                   /\ bda_num_drives' = s1.num_drives
                   /\ equipment_word' = s1.equipment_word
                   /\ num_fdds' = s1.num_fdds
                   /\ num_drives' = s1.num_drives
                   /\ last' = [NoLast EXCEPT !.op = "hook", !.drive = drive,
                                   !.rc = hook_rc(fail, in_use), !.synced = TRUE,
                                   !.fail = fail]
              ELSE IF d.div0
              THEN /\ sandevs' = devs
                   /\ hooked' = hooked
                   /\ fault' = TRUE
                   /\ bda_equipment_word' = s1.equipment_word
                   /\ bda_num_drives' = s1.num_drives
                   /\ equipment_word' = s1.equipment_word
                   /\ num_fdds' = s1.num_fdds
                   /\ num_drives' = s1.num_drives
                   /\ last' = [NoLast EXCEPT !.op = "hook", !.drive = drive,
                                   !.synced = TRUE, !.fail = "div0"]
              ELSE /\ sandevs' = devs
                   /\ hooked' = vector_after_hook(hooked, need_hook)
                   /\ fault' = fault
                   /\ bda_equipment_word' = s2.equipment_word
                   /\ bda_num_drives' = s2.num_drives
                   /\ equipment_word' = s2.equipment_word
                   /\ num_fdds' = s2.num_fdds
                   /\ num_drives' = s2.num_drives
                   /\ last' = [NoLast EXCEPT !.op = "hook", !.drive = drive,
                                   !.rc = drv, !.synced = TRUE,
                                   !.idx = Len(devs),
                                   !.vec = vector_calls_hook(need_hook)]

int13_unhook(drive) ==
    /\ ~fault
    /\ last = NoLast
    /\ boot = NoBoot
    /\ UNCHANGED <<xbfvars, boot>>
    /\ LET i == sandev_find(sandevs, drive)
           devs == unregister_sandev(sandevs, i)
       IN  IF i = 0
           THEN /\ UNCHANGED <<sandevs, hooked>>
                /\ last' = [NoLast EXCEPT !.op = "unhook", !.drive = drive]
           ELSE /\ sandevs' = devs
                /\ hooked' = vector_after_unhook(hooked, devs)
                /\ last' = [NoLast EXCEPT !.op = "unhook", !.drive = drive,
                                !.idx = i,
                                !.vec = vector_calls_unhook(devs)]
    /\ UNCHANGED <<bda_equipment_word, bda_num_drives, equipment_word,
                   num_fdds, num_drives, fault, hooks>>

\* the positions of int13_boot() at which it issues an INT 13 call
BootCallPcs == {"mbr", "catalog", "image"}

\* eltorito_cmd, and eltorito_address as int13_load_eltorito() fills it in
\* from the boot entry of the catalog
eltorito_cmd ==
    [NoPkt EXCEPT !.bufsize = 8, !.count = 1, !.buffer_phys = W(31744)]

eltorito_address(catalog, address) ==
    [NoPkt EXCEPT !.bufsize = ADDR_OFF_BUFFER_PHYS,
                  !.count = catalog.length % 256,
                  !.segment = address[1], !.offset = address[2],
                  !.lba = catalog.start]

\* the position of int13_boot() once the call issued at pc has returned
boot_called(pc) ==
    CASE pc = "mbr" -> "mbr_check"
      [] pc = "catalog" -> "catalog_check"
      [] pc = "image" -> "image_check"

\* the registers and the packet of the call int13_boot() issues at b.pc
boot_call(b) ==
    CASE b.pc = "mbr" ->
           <<[ah |-> INT13_READ_SECTORS, al |-> 1, bx |-> 31744, cx |-> 1,
              dx |-> b.drive, es |-> 0, di |-> 0, ds |-> rm_ds, si |-> 0,
              cf |-> FALSE, of |-> FALSE], NoPkt>>
      [] b.pc = "catalog" ->
           <<[ah |-> INT13_CDROM_READ_BOOT_CATALOG, al |-> 0, bx |-> 0, cx |-> 0,
              dx |-> b.drive, es |-> 0, di |-> 0, ds |-> rm_ds, si |-> 16,
              cf |-> FALSE, of |-> FALSE], eltorito_cmd>>
      [] b.pc = "image" ->
           <<[ah |-> INT13_EXTENDED_READ, al |-> 0, bx |-> 0, cx |-> 0,
              dx |-> b.drive, es |-> 0, di |-> 0, ds |-> rm_ds, si |-> 32,
              cf |-> FALSE, of |-> FALSE],
             eltorito_address(b.catalog, b.address)>>

\* the DL the wrapper leaves to the caller of a call entered with registers r
wrapper_dl(r, out, nfdds, ndrives) ==
    IF r.ah = INT13_GET_DISK_TYPE /\ Bit7(DL(r))
    THEN IF out.of THEN <<"dl", DL(out)>> ELSE <<"previous handler">>
    ELSE IF r.ah = INT13_GET_PARAMETERS
    THEN <<"dl", IF Bit7(DL(r)) THEN ndrives ELSE nfdds>>
    ELSE <<"dl", DL(r)>>

\* does the copy of the caller's packet run past the local disk address
addr_overflows(d, r, pkt) ==
    /\ r.ah \in {INT13_EXTENDED_READ, INT13_EXTENDED_WRITE}
    /\ ~int13_is_fdd(d.drive)
    /\ pkt.bufsize > ADDR_SIZEOF

\* what a copy past the local disk address can do to the handler: leave it
\* intact, lose control before the block device request, or lose control
\* when the command handler returns
OverflowOutcomes == {"intact", "lost", "late"}

\* a status stored in every registered drive
store_last_status_all(devs, idx, status, res) ==
    [j \in 1..Len(devs) |->
        [devs[j] EXCEPT !.last_status = status, !.res = res]]

\* the status of a dispatched command stored as the last status of the
\* drive that handled it; res is what the caller was returned
store_last_status(devs, idx, status, res) ==
    [devs EXCEPT ![idx].last_status = status, ![idx].res = res]

\* the caller of a get-last-status call makes the same call again at once
status_call_again(r0) ==
    /\ boot = NoBoot
    /\ last.op = "int13"
    /\ last.fail = "none"
    /\ last.regs_in.ah = INT13_GET_LAST_STATUS
    /\ r0.ah = INT13_GET_LAST_STATUS
    /\ DL(r0) = last.drive

\* an INT 13 call entered through int13_wrapper with registers r and the
\* packet pkt at ds:si; ok and dpi_ok are the outcomes of the block device
\* request and of the device path lookup the command may make, ub the
\* outcome of a copy past the local disk address.  While int13_boot() runs,
\* the only caller is int13_boot() at one of its three calls.
int13(r0, pkt, ok, dpi_ok, ub) ==
    /\ ~fault
    /\ last # NoLast => status_call_again(r0)
    /\ hooked
    /\ boot # NoBoot => (boot.pc \in BootCallPcs /\ boot_call(boot) = <<r0, pkt>>)
    /\ boot' = IF boot = NoBoot THEN boot
               ELSE [boot EXCEPT !.pc = boot_called(boot.pc)]
    /\ LET r == [r0 EXCEPT !.cf = TRUE, !.of = FALSE]
           changed == int13_check_num_drives(bda_equipment_word, bda_num_drives)
           s == IF changed
                THEN int13_sync_num_drives(sandevs, bda_equipment_word,
                                           bda_num_drives)
                ELSE [equipment_word |-> equipment_word,
                      num_fdds |-> num_fdds, num_drives |-> num_drives]
           t == int13_resolve(sandevs, 1, DL(r), r.ah)
           d == sandevs[t.idx]
           res0 == int13_command(d, r, pkt, ok, dpi_ok, s.num_fdds, s.num_drives)
           res == IF ub = "intact" THEN res0
                  ELSE Result(0, r, IF ub = "late" THEN res0.io ELSE <<>>,
                              IF ub = "late" THEN res0.mem ELSE <<>>,
                              res0.copied)
           out == IF ub # "intact" THEN r
                  ELSE IF t.kind = "dispatch"
                  THEN int13_status(res.regs, res.status)
                  ELSE IF t.kind = "remap" THEN SetDL(r, d.drive)
                  ELSE r
       IN  /\ ub # "intact" => (t.kind = "dispatch" /\ addr_overflows(d, r, pkt))
           /\ fault' = (ub # "intact")
           /\ equipment_word' = s.equipment_word
           /\ num_fdds' = s.num_fdds
           /\ num_drives' = s.num_drives
           /\ bda_equipment_word' = IF changed THEN s.equipment_word
                                    ELSE bda_equipment_word
           /\ bda_num_drives' = IF changed THEN s.num_drives ELSE bda_num_drives
           /\ sandevs' = IF t.kind = "dispatch" /\ ub = "intact"
                         THEN store_last_status(sandevs, t.idx, res.status,
                                                <<out.ah, out.cf>>)
                         ELSE sandevs
           /\ last' = [NoLast EXCEPT
                          !.op = "int13", !.drive = DL(r), !.regs_in = r,
                          !.pkt = pkt, !.regs = out, !.kind = t.kind,
                          !.idx = t.idx,
                          !.status = IF t.kind = "dispatch" THEN res.status ELSE 0,
                          !.io = IF t.kind = "dispatch" THEN res.io ELSE <<>>,
                          !.mem = IF t.kind = "dispatch" THEN res.mem ELSE <<>>,
                          !.copied = IF t.kind = "dispatch" THEN res.copied ELSE 0,
                          !.chained = ~out.of,
                          !.ret_dl = wrapper_dl(r, out, s.num_fdds, s.num_drives),
                          !.synced = changed,
                          !.prev = IF t.kind = "dispatch" THEN d.res ELSE <<>>,
                          !.first = IF last = NoLast THEN <<>>
                                    ELSE <<last.regs.ah, last.regs.cf>>,
                          !.fail = IF ub = "intact" THEN "none" ELSE "overflow",
                          !.io_ok = (t.kind = "dispatch" /\ res.io # <<>>) => ok]
    /\ UNCHANGED <<hooked, hooks, xbfvars>>

\* other software rewrites the BIOS Data Area counters
bios_rewrite(ew, nd) ==
    /\ ~fault
    /\ last = NoLast
    /\ <<ew, nd>> # <<bda_equipment_word, bda_num_drives>>
    /\ bda_equipment_word' = ew
    /\ bda_num_drives' = nd
    /\ last' = [NoLast EXCEPT !.op = "bios"]
    /\ boot = NoBoot
    /\ UNCHANGED <<sandevs, equipment_word, num_fdds, num_drives, hooked, fault,
                   hooks, xbfvars, boot>>

-----------------------------------------------------------------------------
(* Booting from a drive.  int13_boot() issues its INT 13 calls through the *)
(* vector; a call the emulation leaves to the previous handler succeeds or  *)
(* fails as that handler decides (bios_ok).                                 *)

ELTORITO_PLATFORM_X86 == 0
ELTORITO_BOOTABLE == 136
ELTORITO_NO_EMULATION == 0

\* the status the inline assembly leaves in AX: zero unless CF is set
boot_status_ok(bios_ok) ==
    IF last.chained THEN bios_ok ELSE ~last.regs.cf

\* a boot that hands the result of call_bootsector() to its caller
call_bootsector_rc_passes(ret) == ret

\* what int13_boot() returns once call_bootsector() has returned ret
call_bootsector_rc(ret) == IF ret # 0 THEN ret ELSE -ECANCELED

\* the variables int13_boot() leaves alone between its INT 13 calls
bootframe == <<sandevs, bda_equipment_word, bda_num_drives, equipment_word,
               num_fdds, num_drives, hooked, fault, hooks, xbfvars>>

\* int13_boot() is entered and int13_load_mbr() is about to read the MBR
int13_boot(drive) ==
    /\ ~fault
    /\ last = NoLast
    /\ boot = NoBoot
    /\ hooked
    /\ boot' = [NoBoot EXCEPT !.pc = "mbr", !.drive = drive]
    /\ UNCHANGED <<bootframe, last>>

\* int13_load_mbr() after its INT 13, 02: the status and the magic
int13_load_mbr(bios_ok, magic_ok) ==
    /\ boot.pc = "mbr_check"
    /\ LET rc == IF ~boot_status_ok(bios_ok) THEN -EIO
                 ELSE IF ~magic_ok THEN -ENOEXEC
                 ELSE 0
       IN  boot' = [boot EXCEPT
                       !.tried = Append(@, "mbr"),
                       !.rc = rc,
                       !.address = <<0, 31744>>,
                       !.path = IF rc = 0 THEN "mbr" ELSE @,
                       !.pc = IF rc = 0 THEN "jump" ELSE "catalog"]
    /\ last' = NoLast
    /\ UNCHANGED bootframe

\* int13_load_eltorito() after its INT 13, 4d: the status and the checks of
\* the catalog read to 0x7c00
int13_load_eltorito(bios_ok, catalog) ==
    /\ boot.pc = "catalog_check"
    /\ LET rc == IF ~boot_status_ok(bios_ok) THEN -EIO
                 ELSE IF catalog.platform_id # ELTORITO_PLATFORM_X86 THEN -ENOEXEC
                 ELSE IF catalog.indicator # ELTORITO_BOOTABLE THEN -ENOEXEC
                 ELSE IF catalog.media_type # ELTORITO_NO_EMULATION THEN -ENOTSUP
                 ELSE 0
       IN  boot' = [boot EXCEPT
                       !.tried = Append(@, "eltorito"),
                       !.rc = rc,
                       !.catalog = IF boot_status_ok(bios_ok) THEN catalog ELSE @,
                       !.address =
                           IF rc = 0
                           THEN <<IF catalog.load_segment # 0
                                  THEN catalog.load_segment ELSE 1984, 0>>
                           ELSE @,
                       !.pc = IF rc = 0 THEN "image" ELSE "failed"]
    /\ last' = NoLast
    /\ UNCHANGED bootframe

\* int13_load_eltorito() after its INT 13, 42 for the boot image
int13_load_eltorito_image(bios_ok) ==
    /\ boot.pc = "image_check"
    /\ LET rc == IF ~boot_status_ok(bios_ok) THEN -EIO ELSE 0
       IN  boot' = [boot EXCEPT
                       !.rc = rc,
                       !.image_io = IF last.kind = "dispatch" THEN last.io
                                    ELSE <<"previous handler">>,
                       !.path = IF rc = 0 THEN "eltorito" ELSE @,
                       !.pc = IF rc = 0 THEN "jump" ELSE "failed"]
    /\ last' = NoLast
    /\ UNCHANGED bootframe

\* call_bootsector(): control is transferred to the boot code, which keeps
\* it (returns = FALSE) or gives it back with the result ret
call_bootsector(returns, ret) ==
    /\ boot.pc = "jump"
    /\ boot' = [boot EXCEPT
                    !.jumped = boot.address,
                    !.rc = IF returns THEN call_bootsector_rc(ret) ELSE @,
                    !.pc = IF returns THEN "returned" ELSE "gone"]
    /\ UNCHANGED <<bootframe, last>>

\* int13_boot() returns boot.rc to its caller
int13_boot_return ==
    /\ boot.pc \in {"failed", "returned"}
    /\ boot' = NoBoot
    /\ last' = [NoLast EXCEPT !.op = "boot", !.drive = boot.drive,
                              !.rc = boot.rc]
    /\ UNCHANGED bootframe

-----------------------------------------------------------------------------
(* Description of the SAN devices in the boot firmware table arena. *)

\* at most this many tables are offered to int13_install() in one pass
MaxTables == 4

\* a space check that accepts every table
xbftab_fits_always(used, len) == TRUE

\* does a table of len bytes fit in what remains of the arena
xbftab_fits(used, len) == len <= XBFTAB_SIZE - used

\* a used length that is not rounded up
xbftab_next_unaligned(used, len) == used + len

\* the used length after a table of len bytes was installed at used
xbftab_next(used, len) ==
    ((used + len + XBFTAB_ALIGN - 1) \div XBFTAB_ALIGN) * XBFTAB_ALIGN

\* the chunks of the arena that hold bytes of off .. off + len - 1
xbftab_chunks(off, len) ==
    { c \in DOMAIN xbftab :
        c * XBFTAB_ALIGN < off + len /\ (c + 1) * XBFTAB_ALIGN > off }

\* int13_describe() up to its call of acpi_install(): the arena is cleared
int13_describe ==
    /\ ~fault
    /\ last = NoLast
    /\ boot = NoBoot
    /\ xbftab' = [c \in DOMAIN xbftab |-> 0]
    /\ xbftab_used' = 0
    /\ installed' = <<>>
    /\ last' = [NoLast EXCEPT !.op = "describe"]
    /\ UNCHANGED <<sandevs, bda_equipment_word, bda_num_drives, equipment_word,
                   num_fdds, num_drives, hooked, fault, hooks, boot>>

\* int13_install(), called back by acpi_install() for a table of len bytes;
\* a chunk of the arena holds the place in installed of the table whose
\* bytes were last copied to it
int13_install(len) ==
    /\ ~fault
    /\ last.op \in {"describe", "install"}
    /\ Len(installed) < MaxTables
    /\ IF ~xbftab_fits(xbftab_used, len)
       THEN /\ UNCHANGED xbfvars
            /\ last' = [NoLast EXCEPT !.op = "install", !.len = len,
                                      !.rc = -ENOSPC]
       ELSE /\ xbftab' = [c \in DOMAIN xbftab |->
                             IF c \in xbftab_chunks(xbftab_used, len)
                             THEN Len(installed) + 1 ELSE xbftab[c]]
            /\ xbftab_used' = xbftab_next(xbftab_used, len)
            /\ installed' = Append(installed,
                                   [offset |-> xbftab_used, len |-> len])
            /\ last' = [NoLast EXCEPT !.op = "install", !.len = len,
                                      !.idx = Len(installed) + 1]
    /\ UNCHANGED <<sandevs, bda_equipment_word, bda_num_drives, equipment_word,
                   num_fdds, num_drives, hooked, fault, hooks, boot>>

-----------------------------------------------------------------------------
(* Bounds and inputs of the checked state machines. *)

\* the caller of the last operation has taken its results: last records one
\* operation, from its return until the caller goes on
returned ==
    /\ last # NoLast
    /\ boot = NoBoot
    /\ last' = NoLast
    /\ UNCHANGED <<sandevs, bda_equipment_word, bda_num_drives, equipment_word,
                   num_fdds, num_drives, hooked, fault, hooks, xbfvars, boot>>

\* the registers of a call: command, drive, AL, BX, CX, DH
Regs(ah, dl, al, bx, cx, dh) ==
    [ah |-> ah, al |-> al, bx |-> bx, cx |-> cx, dx |-> dh * 256 + dl,
     es |-> 4096, di |-> 0, ds |-> 8192, si |-> 512, cf |-> FALSE, of |-> FALSE]

\* CX of a legacy call for a cylinder and a sector
ChsCx(cylinder, sector) ==
    (cylinder % 256) * 256 + (cylinder \div 256) * 64 + sector

Call(regs, pkt) == [regs |-> regs, pkt |-> pkt]

\* a disk address packet
Addr(bufsize, count, segment, offset, lba, buffer_phys, long_count) ==
    [NoPkt EXCEPT !.bufsize = bufsize, !.count = count, !.segment = segment,
                  !.offset = offset, !.lba = lba, !.buffer_phys = buffer_phys,
                  !.long_count = long_count]

\* the commands that take no packet and no address, for the drives DLs
PlainCalls(DLs) ==
    { Call(Regs(ah, dl, 1, 21930, 1, 0), NoPkt) :
        ah \in {INT13_RESET, INT13_GET_LAST_STATUS, INT13_GET_PARAMETERS,
                INT13_GET_DISK_TYPE, INT13_EXTENSION_CHECK,
                INT13_EXTENDED_VERIFY, INT13_EXTENDED_SEEK,
                INT13_CDROM_STATUS_TERMINATE, 5},
        dl \in DLs }

\* legacy reads and writes of the addresses CHS = {<<cylinder, head, sector>>}
RwCalls(DLs, CHS) ==
    { Call(Regs(ah, dl, 1, 0, ChsCx(a[1], a[3]), a[2]), NoPkt) :
        ah \in {INT13_READ_SECTORS, INT13_WRITE_SECTORS}, dl \in DLs, a \in CHS }

\* extended reads and writes with the packets Pkts
ExtCalls(DLs, Pkts) ==
    { Call(Regs(ah, dl, 0, 0, 0, 0), pkt) :
        ah \in {INT13_EXTENDED_READ, INT13_EXTENDED_WRITE}, dl \in DLs,
        pkt \in Pkts }

\* get-extended-parameters with the buffer sizes Sizes
ParamCalls(DLs, Sizes) ==
    { Call(Regs(INT13_GET_EXTENDED_PARAMETERS, dl, 0, 0, 0, 0),
           [NoPkt EXCEPT !.bufsize = n]) : dl \in DLs, n \in Sizes }

\* read-boot-catalog with the start offsets Starts
CatalogCalls(DLs, Starts) ==
    { Call(Regs(INT13_CDROM_READ_BOOT_CATALOG, dl, 0, 0, 0, 0),
           [NoPkt EXCEPT !.bufsize = 8, !.count = 1,
                         !.buffer_phys = W(31744), !.start = st]) :
        dl \in DLs, st \in Starts }

\* the outcomes of the block device request a command may make
IoOutcomes(ah) ==
    IF ah \in {INT13_RESET, INT13_READ_SECTORS, INT13_WRITE_SECTORS,
               INT13_EXTENDED_READ, INT13_EXTENDED_WRITE,
               INT13_CDROM_READ_BOOT_CATALOG}
    THEN BOOLEAN ELSE {TRUE}

\* the outcomes of the device path lookup a command may make
DpiOutcomes(ah) ==
    IF ah = INT13_GET_EXTENDED_PARAMETERS THEN BOOLEAN ELSE {TRUE}

FailPoints == {"none", "alloc", "register", "scratch", "eltorito", "geometry"}

Init0(Ews, Nds) ==
    /\ sandevs = <<>>
    /\ bda_equipment_word \in Ews
    /\ bda_num_drives \in Nds
    /\ equipment_word = 0
    /\ num_fdds = 0
    /\ num_drives = 0
    /\ hooked = FALSE
    /\ fault = FALSE
    /\ hooks = 0
    /\ last = NoLast
    /\ xbftab = [c \in 0..(XBFTAB_SIZE \div XBFTAB_ALIGN) - 1 |-> 0]
    /\ xbftab_used = 0
    /\ installed = <<>>
    /\ boot = NoBoot

\* hooks of the drives Drives with the media MediaFor(drive), unhooks of the
\* drives Unhooks, the calls Calls, and BIOS Data Area rewrites to Ews x Nds
Next0(Drives, MediaFor(_), Unhooks, Calls, Ews, Nds) ==
    \/ \E drive \in Drives : \E name \in MediaFor(drive) : \E fail \in FailPoints :
           int13_hook(drive, name, fail)
    \/ \E drive \in Unhooks : int13_unhook(drive)
    \/ \E c \in Calls : \E ok \in IoOutcomes(c.regs.ah) :
           \E dpi_ok \in DpiOutcomes(c.regs.ah) : \E ub \in OverflowOutcomes :
               int13(c.regs, c.pkt, ok, dpi_ok, ub)
    \/ \E ew \in Ews : \E nd \in Nds : bios_rewrite(ew, nd)
    \/ returned

(* Spec: every command, on one hard disk, one floppy and one CD-ROM. *)

SpecMedia(drive) ==
    IF int13_is_fdd(drive) THEN {"floppy"} ELSE {"small_hdd", "cdrom"}

SpecDLs == {0, 128, 129}

SpecAddrs ==
    { Addr(16, 5, 4096, 0, W(7), W(0), W(0)),
      Addr(16, 128, 4096, 0, W(7), W(0), W(0)),
      Addr(8, 5, 4096, 0, W(7), W(0), W(0)),
      Addr(28, 255, 65535, 65535, W(7), W(1048576), W(1200)),
      Addr(40, 5, 4096, 0, W(7), W(0), W(0)) }

SpecCalls ==
    PlainCalls(SpecDLs)
    \cup RwCalls(SpecDLs, {<<0, 0, 1>>, <<4, 1, 4>>, <<0, 0, 0>>, <<0, 0, 19>>,
                           <<0, 2, 1>>, <<80, 0, 1>>})
    \cup ExtCalls(SpecDLs, SpecAddrs)
    \cup ParamCalls(SpecDLs, {10, 26, 74})
    \cup CatalogCalls(SpecDLs, {W(0)})

Init == Init0({0}, {0, 1})

Next == Next0({0, 128}, SpecMedia, {0, 128}, SpecCalls, {0}, {0, 1})

Spec == Init /\ [][Next]_vars

(* SpecDrives: drive numbers and counters, with few commands. *)

DrivesCalls ==
    { Call(Regs(ah, dl, 1, 0, 1, 0), NoPkt) :
        ah \in {INT13_GET_LAST_STATUS, INT13_CDROM_STATUS_TERMINATE},
        dl \in {4, 129, 255} }

InitDrives == Init0({0, 227}, {0, 1})

NextDrives ==
    Next0({4, 127, 128, 129, 254, 255}, SpecMedia, {4, 128, 129, 254},
          DrivesCalls, {0, 227}, {0, 1})

SpecDrives == InitDrives /\ [][NextDrives]_vars

(* SpecChs: legacy addresses on hard disks with inferred geometries. *)

ChsMedia(drive) == {"small_hdd", "wide_hdd"}

ChsAddrs == {<<0, 0, 1>>, <<0, 1, 1>>, <<0, 1, 4>>, <<0, 254, 63>>, <<1, 0, 1>>,
             <<4, 1, 4>>, <<5, 0, 1>>}

ChsCalls == RwCalls({128}, ChsAddrs)

NextChs == Next0({128}, ChsMedia, {128}, ChsCalls, {0}, {0, 1})

SpecChs == Init /\ [][NextChs]_vars

(* SpecExt: extended reads and writes, by the fields of the packet. *)

ExtMedia(drive) == IF int13_is_fdd(drive) THEN {"floppy"} ELSE {"small_hdd"}

ExtAddrs ==
    { Addr(8, 5, 4096, 0, W(7), W(0), W(0)),
      Addr(16, 5, 4096, 0, W(7), W(0), W(0)),
      Addr(16, 127, 4096, 16, W(7), W(0), W(0)),
      Addr(16, 128, 4096, 0, W(7), W(0), W(0)),
      Addr(32, 254, 4096, 0, W(7), W(1048576), W(1200)),
      Addr(16, 5, 65535, 65535, W(7), W(1048576), W(0)),
      Addr(32, 5, 65535, 65535, W(7), W(1048576), W(0)),
      Addr(32, 5, 65535, 0, W(7), W(1048576), W(0)),
      Addr(24, 255, 65535, 65535, W(7), W(1048576), W(1200)),
      Addr(26, 255, 65535, 65535, W(7), W(1048576), W32(1, 1200)),
      Addr(32, 255, 65535, 65535, W(7), W(1048576), W32(1, 1200)),
      Addr(32, 255, 4096, 0, W(7), W(1048576), W(1200)),
      Addr(40, 5, 4096, 0, W(7), W(0), W(0)) }

ExtSpecCalls == ExtCalls({0, 128}, ExtAddrs)

NextExt == Next0({0, 128}, ExtMedia, {0, 128}, ExtSpecCalls, {0}, {0, 1})

SpecExt == Init /\ [][NextExt]_vars

(* SpecGeom: the geometries inferred for floppies and hard disks. *)

GeomMedia(drive) ==
    IF int13_is_fdd(drive)
    THEN {"floppy", "floppy_360", "floppy_2000", "floppy_40000", "huge_floppy"}
    ELSE {"empty_hdd", "huge_hdd", "small_hdd", "tall_hdd", "wide_hdd"}

GeomCalls == RwCalls({128}, {<<0, 1, 1>>, <<0, 254, 63>>, <<1, 0, 1>>})

NextGeom == Next0({0, 128}, GeomMedia, {0, 128}, GeomCalls, {0}, {0})

SpecGeom == Init /\ [][NextGeom]_vars

(* SpecBoot: boot attempts from a hard disk and from optical discs. *)

BootMedia(drive) == {"cdrom", "plain_cdrom", "small_hdd"}

Catalogs ==
    { Catalog(0, 136, 0, 0, 4, W(27)),
      Catalog(0, 136, 0, 4096, 127, W(27)),
      Catalog(0, 136, 0, 0, 128, W(27)),
      Catalog(0, 136, 0, 0, 255, W(27)),
      Catalog(0, 136, 0, 0, 256, W(27)),
      Catalog(0, 136, 0, 0, 1024, W(27)),
      Catalog(1, 136, 0, 0, 4, W(27)),
      Catalog(0, 0, 0, 0, 4, W(27)),
      Catalog(0, 136, 2, 0, 4, W(27)) }

BootDrives == {128, 129}

\* the calls int13_boot() can issue
BootCalls ==
    { Call(c[1], c[2]) :
        c \in { boot_call([NoBoot EXCEPT !.pc = pc, !.drive = drive,
                                         !.catalog = catalog,
                                         !.address = <<seg, 0>>]) :
                  pc \in BootCallPcs, drive \in BootDrives,
                  catalog \in Catalogs, seg \in {1984, 4096} }
             \cup { boot_call([NoBoot EXCEPT !.pc = "mbr", !.drive = drive]) :
                      drive \in BootDrives } }

NextBoot ==
    \/ Next0({128}, BootMedia, {128}, BootCalls, {0}, {0})
    \/ \E drive \in BootDrives : int13_boot(drive)
    \/ \E bios_ok \in BOOLEAN : \E magic_ok \in BOOLEAN :
           int13_load_mbr(bios_ok, magic_ok)
    \/ \E bios_ok \in BOOLEAN : \E catalog \in Catalogs :
           int13_load_eltorito(bios_ok, catalog)
    \/ \E bios_ok \in BOOLEAN : int13_load_eltorito_image(bios_ok)
    \/ \E returns \in BOOLEAN : \E ret \in {-ECANCELED, 0} :
           call_bootsector(returns, ret)
    \/ int13_boot_return

SpecBoot == Init /\ [][NextBoot]_vars

(* SpecDescribe: description passes over tables of several lengths. *)

TableLens == {36, 100, 292, 400, 732, 768, 800}

NextDescribe ==
    \/ int13_describe
    \/ \E len \in TableLens : int13_install(len)
    \/ returned

SpecDescribe == Init /\ [][NextDescribe]_vars

(* SpecCmd: the parameter, installation check and boot catalog commands. *)

CmdMedia(drive) ==
    IF int13_is_fdd(drive) THEN {"floppy"}
    ELSE {"cdrom", "huge_hdd", "iso_hdd", "plain_cdrom", "tiny_hdd"}

CmdCalls ==
    { Call(Regs(ah, dl, 1, bx, 4660, 0), NoPkt) :
        ah \in {INT13_GET_PARAMETERS, INT13_EXTENSION_CHECK},
        dl \in {0, 128}, bx \in {21930, 43605} }
    \cup ParamCalls({128}, {0, 25, 26, 29, 30, 73, 74, 100})
    \cup CatalogCalls({0, 128}, {W(0), W(5), W32(65535, 65520)})

NextCmd == Next0({0, 128}, CmdMedia, {0, 128}, CmdCalls, {0}, {0})

SpecCmd == Init /\ [][NextCmd]_vars

-----------------------------------------------------------------------------
(* Properties of the handler, the registry and the vector. *)

\* the last operation was an INT 13 call dispatched to a registered drive
Dispatched == last.op = "int13" /\ last.kind = "dispatch"

\* the device the last call was dispatched to
Target == sandevs[last.idx]

LegacyRw == last.regs_in.ah \in {INT13_READ_SECTORS, INT13_WRITE_SECTORS}

\* the address of the last call lies outside the geometry of its target
AddressOutOfRange ==
    LET cylinder == (CL(last.regs_in) \div 64) * 256 + CH(last.regs_in)
        head     == DH(last.regs_in)
        sector   == CL(last.regs_in) % 64
    IN  \/ cylinder >= Target.cylinders
        \/ head >= Target.heads
        \/ sector = 0
        \/ ~WLe(W(sector), Target.sectors_per_track)

\* C4: a legacy read or write whose cylinder, head or sector lies outside
\* the drive's geometry returns the Invalid status with the error indicator
\* set, and no block device transfer is issued.
C4_OutOfRangeIsInvalid ==
    (Dispatched /\ LegacyRw /\ AddressOutOfRange)
        => /\ last.regs.ah = INT13_STATUS_INVALID
           /\ last.regs.cf
           /\ last.status = -INT13_STATUS_INVALID
           /\ last.io = <<>>

\* C4 happens: a read of sector 0, and a write beyond the last head, of a
\* 512-byte-block drive have been refused
C4_Witness ==
    /\ Dispatched /\ LegacyRw /\ AddressOutOfRange
    /\ Target.blksize = INT13_BLKSIZE
    /\ Target.cylinders > 0
    /\ last.regs.ah = INT13_STATUS_INVALID

\* C5: a get-last-status dispatched to a drive after some other command was
\* dispatched to it returns that command's result: the same status value,
\* and the error indicator set exactly if that command failed.
C5_LastStatusRoundTrip ==
    (Dispatched /\ last.regs_in.ah = INT13_GET_LAST_STATUS /\ last.prev # <<>>)
        => <<last.regs.ah, last.regs.cf>> = last.prev

\* C5 happens: get-last-status has reported a failed command
C5_Witness ==
    /\ Dispatched /\ last.regs_in.ah = INT13_GET_LAST_STATUS
    /\ last.prev = <<INT13_STATUS_READ_ERROR, TRUE>>
    /\ last.regs.ah = INT13_STATUS_READ_ERROR

\* C6: every dispatched command leaves the magnitude of a negative result
\* in the status register with the error indicator still set, a zero or
\* positive result (the disk type, the extensions version) in the status
\* register with the error indicator cleared; the result is stored as the
\* drive's last status and the call is marked handled, so it is not chained.
C6_StatusConvention ==
    Dispatched
        => /\ last.status < 0 => (last.regs.ah = -last.status /\ last.regs.cf)
           /\ last.status >= 0 => (last.regs.ah = last.status /\ ~last.regs.cf)
           /\ Target.last_status = last.status
           /\ last.regs.of
           /\ ~last.chained
           /\ (last.regs_in.ah = INT13_GET_DISK_TYPE
                  => last.regs.ah = IF Bit7(Target.drive) THEN INT13_DISK_TYPE_HDD
                                    ELSE INT13_DISK_TYPE_FDD)
           /\ (last.regs_in.ah = INT13_EXTENSION_CHECK /\ ~last.regs.cf
                  => last.regs.ah = INT13_EXTENSION_VER_3_0)

\* C6 happens: a failed reset, a disk type and an extensions version
C6_Witness ==
    /\ Dispatched
    /\ last.regs_in.ah = INT13_EXTENSION_CHECK
    /\ last.regs.ah = INT13_EXTENSION_VER_3_0
    /\ \E i \in 1..Len(sandevs) : sandevs[i].last_status = -INT13_STATUS_RESET_FAILED

\* C10: the vector is installed exactly while a drive is registered; only a
\* successful hook into an empty registry installs it, only the unhook that
\* empties the registry removes it, it is never installed while installed
\* nor removed while not installed.
C10_VectorFollowsRegistry ==
    /\ [](fault \/ (hooked <=> have_sandevs(sandevs)))
    /\ [][ /\ (last'.vec # <<>> => last'.vec \in {<<"install">>, <<"remove">>})
           /\ (last'.vec = <<"install">>
                  => /\ last'.op = "hook" /\ last'.fail = "none"
                     /\ ~have_sandevs(sandevs) /\ have_sandevs(sandevs')
                     /\ ~hooked /\ hooked')
           /\ (last'.vec = <<"remove">>
                  => /\ last'.op = "unhook"
                     /\ have_sandevs(sandevs) /\ ~have_sandevs(sandevs')
                     /\ hooked /\ ~hooked')
           /\ (hooked' # hooked => last'.vec # <<>>) ]_vars

\* C10 happens: the second of two drives was unhooked and the vector stayed,
\* after a hook had failed
C10_Witness ==
    /\ last.op = "unhook" /\ last.idx # 0
    /\ Len(sandevs) = 1
    /\ hooked
    /\ hooks = 2

\* the places of the registered drives
Devs == 1..Len(sandevs)

\* C1: a call whose drive number is the assigned number of a registered
\* drive is dispatched to that drive (its last status is updated, the call
\* is marked handled), whatever the other drives and their natural numbers.
C1_AssignedNumberIsDispatched ==
    (last.op = "int13" /\ \E i \in Devs : sandevs[i].drive = last.drive)
        => /\ last.kind = "dispatch"
           /\ Target.drive = last.drive
           /\ Target.last_status = last.status
           /\ last.regs.of
           /\ ~last.chained

\* C2: a call addressed to a registered drive's natural number, and not to
\* that drive's assigned number, has its drive number rewritten to the
\* assigned number and no other effect: no block device request, no last
\* status changed, status register and error indicator untouched, not
\* marked handled.
C2_NaturalNumberIsRedirected ==
    (last.op = "int13"
     /\ \E i \in Devs : /\ sandevs[i].natural_drive = last.drive
                        /\ sandevs[i].drive # last.drive)
        => /\ \E i \in Devs : /\ sandevs[i].natural_drive = last.drive
                              /\ sandevs[i].drive # last.drive
                              /\ DL(last.regs) = sandevs[i].drive
           /\ last.kind # "dispatch"
           /\ last.io = <<>>
           /\ last.regs.ah = last.regs_in.ah
           /\ last.regs.cf = last.regs_in.cf
           /\ ~last.regs.of
           /\ last.chained

\* the exact block address of a cylinder, head and sector of device d
ExactLba(d, cylinder, head, sector) ==
    WSub(WAdd(WMul(W(cylinder * d.heads + head), d.sectors_per_track),
              W(sector)), W(1))

\* is the address a within the geometry of device d
InRange(d, a) ==
    /\ a[1] < d.cylinders
    /\ a[2] < d.heads
    /\ a[3] >= 1
    /\ WLe(W(a[3]), d.sectors_per_track)

\* does address a precede address b in (cylinder, head, sector) order
LexLess(a, b) ==
    \/ a[1] < b[1]
    \/ a[1] = b[1] /\ a[2] < b[2]
    \/ a[1] = b[1] /\ a[2] = b[2] /\ a[3] < b[3]

\* C3: a legacy read or write of a 512-byte-block drive within its geometry
\* passes the block address (cylinder*heads + head)*sectors_per_track +
\* sector - 1 to the block device, and that address is strictly increasing
\* in (cylinder, head, sector) order.
C3_LbaOfChs ==
    (Dispatched /\ LegacyRw /\ Target.blksize = INT13_BLKSIZE
     /\ ~AddressOutOfRange)
        => /\ Len(last.io) = 1
           /\ last.io[1].lba =
                  ExactLba(Target,
                           (CL(last.regs_in) \div 64) * 256 + CH(last.regs_in),
                           DH(last.regs_in), CL(last.regs_in) % 64)
           /\ \A a \in ChsAddrs, b \in ChsAddrs :
                  (InRange(Target, a) /\ InRange(Target, b) /\ LexLess(a, b))
                      => WLt(rw_lba(Target, a[1], a[2], a[3]),
                             rw_lba(Target, b[1], b[2], b[3]))

\* the count a drive needs of the counter of its class
Needs(d) == (Max(d.drive, d.natural_drive) % 128) + 1

\* the firmware counter of the class of device d
FirmwareCount(d) ==
    IF Bit7(d.drive) THEN bda_num_drives ELSE FddCount(bda_equipment_word)

\* C7: after every successful hook and after every unhook, the firmware
\* counter of each registered drive's class is at least
\* (max(assigned, natural) & 0x7f) + 1.  (After an unhook this is asked only
\* while the firmware values are those last written by the handler.)
C7_CountersCoverDrives ==
    (\/ last.op = "hook" /\ last.fail = "none"
     \/ /\ last.op = "unhook"
        /\ bda_equipment_word = equipment_word
        /\ bda_num_drives = num_drives)
        => \A i \in Devs : FirmwareCount(sandevs[i]) >= Needs(sandevs[i])

\* C8: no hook, unhook or INT 13 call leaves the firmware fixed-disk count,
\* or the floppy count encoded in the firmware equipment word, lower than
\* it found it.
C8_CountersNeverLowered ==
    [][ last'.op \in {"hook", "unhook", "int13"}
           => /\ bda_num_drives' >= bda_num_drives
              /\ FddCount(bda_equipment_word') >= FddCount(bda_equipment_word)
      ]_vars

\* the largest count the registered drives of a class need, at least n
RECURSIVE Covering(_, _, _)
Covering(i, fdd, n) ==
    IF i > Len(sandevs) THEN n
    ELSE Covering(i + 1, fdd,
                  IF int13_is_fdd(sandevs[i].drive) = fdd
                  THEN Max(n, Needs(sandevs[i])) ELSE n)

\* C9: an INT 13 call that finds the firmware counters different from the
\* cached copy leaves each firmware counter at the maximum of the value
\* found and the value the registered drives need; a call that finds them
\* equal to the cached copy writes nothing.
C9_CallResynchronises ==
    [][ last'.op = "int13"
           => IF bda_equipment_word # equipment_word
                 \/ bda_num_drives # num_drives
              THEN /\ last'.synced
                   /\ bda_num_drives' = Covering(1, FALSE, bda_num_drives)
                   /\ FddCount(bda_equipment_word')
                          = Covering(1, TRUE, FddCount(bda_equipment_word))
              ELSE /\ ~last'.synced
                   /\ bda_num_drives' = bda_num_drives
                   /\ bda_equipment_word' = bda_equipment_word
      ]_vars

\* C11: a hook that fails at any of its steps (device allocation,
\* registration, scratch area allocation, El Torito read, partition table
\* read) returns a negative error code, leaves the set of registered drives
\* as it was, and does not install the vector.
C11_FailedHookUnwinds ==
    [][ (last'.op = "hook" /\ last'.fail \in FailPoints \ {"none"})
           => /\ last'.rc < 0
              /\ sandevs' = sandevs
              /\ hooked' = hooked
              /\ last'.vec = <<>>
      ]_vars

\* C12: on a successful hook the natural number is (fixed-disk count | 0x80)
\* for a request with bit 7 set and the floppy count otherwise, the counts
\* being those synchronised when the hook starts; a request whose low seven
\* bits are 0x7f is registered under the natural number, any other under
\* the requested number; the hook returns the assigned number and the drive
\* records the natural number.
C12_NaturalAndAssignedNumber ==
    [][ (last'.op = "hook" /\ last'.fail = "none")
           => LET requested == last'.drive
                  disks     == Covering(1, FALSE, bda_num_drives)
                  floppies  == Covering(1, TRUE, FddCount(bda_equipment_word))
                  natural   == IF requested >= 128
                               THEN (IF disks >= 128 THEN disks ELSE disks + 128)
                               ELSE floppies
                  assigned  == IF requested % 128 = 127 THEN natural
                               ELSE requested
              IN  /\ last'.rc = assigned
                  /\ Len(sandevs') = Len(sandevs) + 1
                  /\ sandevs'[Len(sandevs')].drive = assigned
                  /\ sandevs'[Len(sandevs')].natural_drive = natural
      ]_vars

\* C12 happens: a second drive was hooked with the sentinel and got the
\* natural number that follows the first drive
C12_Witness ==
    /\ last.op = "hook" /\ last.fail = "none"
    /\ last.drive \in {127, 255}
    /\ Len(sandevs) = 2
    /\ last.rc # last.drive
    /\ sandevs[2].drive = last.rc
    /\ sandevs[2].natural_drive = last.rc
    /\ sandevs[2].natural_drive > sandevs[1].natural_drive

ExtRw == last.regs_in.ah \in {INT13_EXTENDED_READ, INT13_EXTENDED_WRITE}

\* the part of an n-byte field at offset off that a packet of size bytes holds
FieldRead(v, off, n, size) == WLowBits(v, 8 * Max(0, Min(n, size - off)))

\* C13: an extended read or write of a fixed-disk drive whose packet reaches
\* the physical-pointer field transfers as many blocks as the count byte
\* says when it is 0x00-0x7f, as many as the long-count field (zero where
\* the packet does not hold it) when it is 0xff, and returns Invalid with
\* no block device request when it is 0x80-0xfe.
C13_CountDecoding ==
    (Dispatched /\ ExtRw /\ Bit7(Target.drive) /\ last.pkt.bufsize >= 16)
        => LET n == last.pkt.count
           IN  /\ n <= 127
                    => (Len(last.io) = 1 /\ last.io[1].count = W(n))
               /\ n = 255
                    => /\ Len(last.io) = 1
                       /\ last.io[1].count =
                              FieldRead(last.pkt.long_count, 24, 4,
                                        last.pkt.bufsize)
               /\ (n >= 128 /\ n <= 254)
                    => /\ last.io = <<>>
                       /\ last.regs.ah = INT13_STATUS_INVALID
                       /\ last.regs.cf

ZeroCount == [what |-> "addr.count", len |-> 1, val |-> 0]

\* C15: when the block device fails an extended read or write, a zero count
\* byte is written into the caller's packet and the call returns a
\* read/write error with the error indicator set; when the transfer
\* succeeds, or the call is rejected before any transfer, the caller's
\* packet is not written.
C15_ZeroCountOnFailure ==
    (Dispatched /\ ExtRw)
        => IF last.io # <<>> /\ ~last.io_ok
           THEN /\ last.mem = <<ZeroCount>>
                /\ last.regs.ah = INT13_STATUS_READ_ERROR
                /\ last.regs.cf
           ELSE last.mem = <<>>

\* C16: an extended read or write addressed to a floppy-class drive, or
\* whose packet is smaller than the offset of its physical-pointer field,
\* returns Invalid and issues no block device request, whatever else the
\* packet holds.
C16_ExtendedRwRejected ==
    (Dispatched /\ ExtRw /\ (~Bit7(Target.drive) \/ last.pkt.bufsize < 16))
        => /\ last.regs.ah = INT13_STATUS_INVALID
           /\ last.regs.cf
           /\ last.status = -INT13_STATUS_INVALID
           /\ last.io = <<>>
           /\ last.mem = <<>>

\* C16 happens: a floppy drive has refused an extended write that declared
\* a 40-byte packet
C16_Witness ==
    /\ Dispatched
    /\ last.regs_in.ah = INT13_EXTENDED_WRITE
    /\ ~Bit7(Target.drive)
    /\ last.pkt.bufsize = 40
    /\ last.regs.ah = INT13_STATUS_INVALID
    /\ last.io = <<>>

\* a hook has just succeeded, and registered the device Hooked
HookDone == last.op = "hook" /\ last.fail = "none" /\ last.idx # 0

Hooked == sandevs[last.idx]

\* C17: after every successful hook of a drive with 512-byte blocks,
\* whatever the partition table and the capacity, the geometry has
\* cylinders <= 1024, 1 <= heads <= 255 and 1 <= sectors per track <= 63.
C17_GeometryBounds ==
    (HookDone /\ Hooked.blksize = INT13_BLKSIZE)
        => /\ Hooked.cylinders <= 1024
           /\ 1 <= Hooked.heads /\ Hooked.heads <= 255
           /\ WLe(W(1), Hooked.sectors_per_track)
           /\ WLe(Hooked.sectors_per_track, W(63))

\* cylinders * heads * sectors per track of device d
GeometryBlocks(d) == WMul(W(d.cylinders * d.heads), d.sectors_per_track)

\* C18: after every successful hook of a drive with 512-byte blocks,
\* cylinders * heads * sectors per track does not exceed the capacity in
\* blocks, and every address a legacy read or write accepts is passed to
\* the block device as a block address below the capacity.
C18_GeometryWithinCapacity ==
    /\ (HookDone /\ Hooked.blksize = INT13_BLKSIZE)
           => WLe(GeometryBlocks(Hooked), Hooked.capacity)
    /\ (Dispatched /\ LegacyRw /\ Target.blksize = INT13_BLKSIZE
        /\ ~AddressOutOfRange)
           => \A i \in 1..Len(last.io) : WLt(last.io[i].lba, Target.capacity)

\* no entry of the partition table has a non-zero type
EmptyTable(parts) == \A i \in 1..Len(parts) : parts[i].type = 0

\* min(1024, capacity capped to 32 bits / (255 * 63))
EmptyTableCylinders(capacity) ==
    LET cap32 == IF WLe(capacity, W32(65535, 65535)) THEN capacity
                 ELSE W32(65535, 65535)
        q == WDivSmall(cap32, 255 * 63)
    IN  IF WLt(W(1024), q) THEN W(1024) ELSE q

\* C19: a fixed disk whose partition table holds no entry with a non-zero
\* type gets 255 heads, 63 sectors per track and min(1024, capacity capped
\* to 32 bits / (255*63)) cylinders; the inference fails only when the
\* first block cannot be read, and the hook then returns the I/O error.
C19_EmptyTableGeometry ==
    /\ (HookDone /\ Bit7(Hooked.drive) /\ Hooked.blksize = INT13_BLKSIZE
        /\ EmptyTable(Hooked.parts))
           => /\ Hooked.heads = 255
              /\ Hooked.sectors_per_track = W(63)
              /\ W(Hooked.cylinders) = EmptyTableCylinders(Hooked.capacity)
    /\ (last.op = "hook" /\ last.fail = "geometry") => last.rc = -EIO
    /\ (last.op = "hook" /\ last.fail = "div0")
           => ~EmptyTable(sandevs[Len(sandevs)].parts)

\* C19 happens: a fixed disk of more than 2^32 blocks with an empty
\* partition table has been hooked, with 1024 cylinders
C19_Witness ==
    /\ HookDone
    /\ Bit7(Hooked.drive)
    /\ EmptyTable(Hooked.parts)
    /\ WLt(W32(65535, 65535), Hooked.capacity)
    /\ Hooked.cylinders = 1024

\* the places of the entries of the table whose product is the capacity
FddMatches(capacity) ==
    { i \in 1..Len(int13_fdd_geometries) :
        W(int13_fdd_geometries[i][1] * int13_fdd_geometries[i][2]
          * int13_fdd_geometries[i][3]) = capacity }

\* C20: a floppy whose block count is the product of an entry of the table
\* of known geometries gets the heads and sectors of the first such entry,
\* and cylinders with cylinders * heads * sectors equal to the block count;
\* a floppy of any other block count gets 2 heads, 18 sectors per track and
\* block count / 36 cylinders.
C20_FloppyGeometry ==
    (HookDone /\ ~Bit7(Hooked.drive) /\ Hooked.blksize = INT13_BLKSIZE)
        => IF FddMatches(Hooked.capacity) # {}
           THEN LET i == CHOOSE j \in FddMatches(Hooked.capacity) :
                             \A k \in FddMatches(Hooked.capacity) : j <= k
                IN  /\ Hooked.heads = int13_fdd_geometries[i][2]
                    /\ Hooked.sectors_per_track = W(int13_fdd_geometries[i][3])
                    /\ GeometryBlocks(Hooked) = Hooked.capacity
           ELSE /\ Hooked.heads = 2
                /\ Hooked.sectors_per_track = W(18)
                /\ W(Hooked.cylinders) = WDivSmall(Hooked.capacity, 36)

\* the command of the last call
Command == last.regs_in.ah

\* the last call was refused as invalid and changed no other register
RefusedUnchanged ==
    /\ last.regs = [last.regs_in EXCEPT !.ah = INT13_STATUS_INVALID, !.of = TRUE]
    /\ last.regs.cf
    /\ last.status = -INT13_STATUS_INVALID

\* C21: get-parameters of a drive with 512-byte blocks returns the maximum
\* cylinder cylinders - 1 (low 8 bits in CH, high 2 bits in CL bits 7:6),
\* the maximum head heads - 1 in DH and the sectors per track in CL bits
\* 5:0, also for 0 and for 1024 cylinders; for any other block size it
\* returns Invalid and changes no result register.
C21_GetParameters ==
    (Dispatched /\ Command = INT13_GET_PARAMETERS)
        => IF Target.blksize = INT13_BLKSIZE
           THEN /\ last.regs.ah = 0 /\ ~last.regs.cf
                /\ (CL(last.regs) \div 64) * 256 + CH(last.regs)
                       = Target.cylinders - 1
                /\ DH(last.regs) = Target.heads - 1
                /\ W(CL(last.regs) % 64) = Target.sectors_per_track
           ELSE RefusedUnchanged

\* the base record of get-extended-parameters has been written
BaseRecord ==
    /\ Len(last.mem) = 1
    /\ last.mem[1].what = "params"
    /\ last.mem[1].len >= PARAMS_OFF_DPTE

\* C22: get-extended-parameters with a buffer that holds the base record
\* returns the cylinders, heads and sectors per track that legacy
\* get-parameters and legacy address validation use for the drive, the
\* capacity of the block device as total sectors and its block size as
\* sector size.
C22_ExtendedParametersRoundTrip ==
    (Dispatched /\ Command = INT13_GET_EXTENDED_PARAMETERS
     /\ last.pkt.bufsize >= PARAMS_OFF_DPTE)
        => /\ last.regs.ah = 0 /\ ~last.regs.cf
           /\ BaseRecord
           /\ last.mem[1].val.cylinders = Target.cylinders
           /\ last.mem[1].val.heads = Target.heads
           /\ last.mem[1].val.sectors_per_track = Target.sectors_per_track
           /\ last.mem[1].val.sectors = Target.capacity
           /\ last.mem[1].val.sector_size = Target.blksize
           /\ Target.blksize = INT13_BLKSIZE
                  => LET g == int13_get_parameters(Target, last.regs_in, 0, 0).regs
                         lo == (last.mem[1].val.cylinders + 1023) % 1024
                     IN  /\ CH(g) = lo % 256
                         /\ CL(g) \div 64 = lo \div 256
                         /\ DH(g) = (last.mem[1].val.heads + 255) % 256
                         /\ \A a \in ChsAddrs :
                                InRange([cylinders |-> last.mem[1].val.cylinders,
                                         heads |-> last.mem[1].val.heads,
                                         sectors_per_track |->
                                             last.mem[1].val.sectors_per_track], a)
                                    <=> ~rw_out_of_range(
                                            Target,
                                            Regs(INT13_READ_SECTORS, 128, 1, 0,
                                                 ChsCx(a[1], a[3]), a[2]))

\* C22 happens: a disk of more than 2^32 blocks has reported its capacity
\* and its 1024 cylinders
C22_Witness ==
    /\ Dispatched
    /\ Command = INT13_GET_EXTENDED_PARAMETERS
    /\ BaseRecord
    /\ WLt(W32(65535, 65535), last.mem[1].val.sectors)
    /\ last.mem[1].val.cylinders = 1024

\* the device path lookup of the last call failed
NoDevicePath == Len(last.mem) = 1 /\ ~last.mem[1].val.dpi

\* C23: get-extended-parameters never writes more bytes than the caller
\* declared; a declared size below the base record returns Invalid and
\* writes nothing; when the device path cannot be obtained the call still
\* succeeds and writes at most the record up to the device path.
C23_ExtendedParametersBounded ==
    (Dispatched /\ Command = INT13_GET_EXTENDED_PARAMETERS)
        => /\ \A i \in 1..Len(last.mem) : last.mem[i].len <= last.pkt.bufsize
           /\ IF last.pkt.bufsize < PARAMS_OFF_DPTE
              THEN /\ last.mem = <<>>
                   /\ last.regs.ah = INT13_STATUS_INVALID
                   /\ last.regs.cf
              ELSE /\ last.regs.ah = 0 /\ ~last.regs.cf
                   /\ Len(last.mem) = 1
                   /\ NoDevicePath => last.mem[1].len <= PARAMS_OFF_DPI

\* C23 happens: a caller that declared 29 bytes has got 29 bytes, and a
\* lookup that failed has cut a 100-byte request to 30 bytes
C23_Witness ==
    /\ Dispatched
    /\ Command = INT13_GET_EXTENDED_PARAMETERS
    /\ Len(last.mem) = 1
    /\ \/ last.pkt.bufsize = 29 /\ last.mem[1].len = 29
       \/ last.pkt.bufsize = 100 /\ NoDevicePath /\ last.mem[1].len = 30

\* is the call for drive number dl and command ah addressed to no device of
\* devs, by assigned number, by natural number or as any CD-ROM
Unaddressed(devs, dl, ah) ==
    /\ \A i \in 1..Len(devs) : devs[i].drive # dl /\ devs[i].natural_drive # dl
    /\ ~ /\ And7f(dl) = 127
         /\ ah = INT13_CDROM_STATUS_TERMINATE
         /\ \E i \in 1..Len(devs) : devs[i].is_cdrom

C29_ExtensionCheck ==
    (Dispatched /\ Command = INT13_EXTENSION_CHECK)
        => IF Bit7(Target.drive) /\ last.regs_in.bx = 21930
           THEN /\ last.regs.bx = 43605
                /\ last.regs.cx = INT13_EXTENSION_LINEAR + INT13_EXTENSION_EDD
                                  + INT13_EXTENSION_64BIT
                /\ last.regs.ah = INT13_EXTENSION_VER_3_0
                /\ ~last.regs.cf
           ELSE RefusedUnchanged

\* C29 happens: a fixed disk has refused a check made with BX = 0xaa55
C29_Witness ==
    /\ Dispatched
    /\ Command = INT13_EXTENSION_CHECK
    /\ Bit7(Target.drive)
    /\ last.regs_in.bx = 43605
    /\ last.regs.ah = INT13_STATUS_INVALID
    /\ last.regs.cx = 4660

C26_UsedLength ==
    /\ [](/\ xbftab_used % 16 = 0
          /\ xbftab_used <= 768
          /\ last.op = "describe" => xbftab_used = 0)
    /\ [][ last'.op = "install" => xbftab_used' >= xbftab_used ]_vars

\* C26 happens: a pass has filled the arena to its last byte with more
\* than one table
C26_Witness ==
    /\ last.op = "install"
    /\ Len(installed) >= 2
    /\ xbftab_used = 768

\* the bytes of installed table i are where it was copied and are its own
TableIntact(i) ==
    /\ installed[i].offset % 16 = 0
    /\ installed[i].offset + installed[i].len <= 768
    /\ \A c \in xbftab_chunks(installed[i].offset, installed[i].len) :
           xbftab[c] = i

\* C27: installing a table longer than the remaining space (768 minus the
\* used length) fails with the out-of-space error and leaves the used
\* length and the tables installed before as they were, so that a smaller
\* table can be installed later; every installed table starts at a multiple
\* of 16 and overlaps no other installed table.
C27_InstallOutOfSpace ==
    /\ [](/\ \A i \in 1..Len(installed) : TableIntact(i)
          /\ \A i, j \in 1..Len(installed) :
                 i < j => installed[i].offset + installed[i].len
                              <= installed[j].offset)
    /\ [][ last'.op = "install"
             => IF last'.len > 768 - xbftab_used
                THEN /\ last'.rc = -ENOSPC
                     /\ xbftab_used' = xbftab_used
                     /\ xbftab' = xbftab
                     /\ installed' = installed
                ELSE /\ last'.rc = 0
                     /\ installed' = Append(installed,
                                            [offset |-> xbftab_used,
                                             len |-> last'.len])
         ]_vars

\* C27 happens: after a table was installed, a table has been refused
\* although room for a smaller one remains
C27_Witness ==
    /\ last.op = "install"
    /\ last.rc = -ENOSPC
    /\ installed # <<>>
    /\ 768 - xbftab_used >= 36

\* the address the El Torito path boots at for the catalog read
EltoritoAddress ==
    <<IF boot.catalog.load_segment = 0 THEN 1984 ELSE boot.catalog.load_segment,
      0>>

\* C24: a boot attempt tries the MBR path first and the El Torito path only
\* after the MBR path failed (read error or wrong magic); control is
\* transferred only after one of the paths succeeded, to 0000:7c00 for the
\* MBR path and to the load segment of the catalog (0x07c0 when zero),
\* offset 0, for El Torito; when both paths fail the El Torito error is
\* returned and nothing is transferred to; the boot never returns success,
\* even when the code transferred to returns.
C24_BootPaths ==
    /\ [](/\ boot.tried \in {<<>>, <<"mbr">>, <<"mbr", "eltorito">>}
          /\ boot.path = "mbr" => boot.tried = <<"mbr">>
          /\ boot.path = "eltorito" => boot.tried = <<"mbr", "eltorito">>
          /\ boot.jumped # <<>>
                 => /\ boot.path \in {"mbr", "eltorito"}
                    /\ boot.jumped = IF boot.path = "mbr" THEN <<0, 31744>>
                                     ELSE EltoritoAddress
          /\ boot.pc = "failed"
                 => /\ boot.jumped = <<>>
                    /\ boot.path = "none"
                    /\ boot.tried = <<"mbr", "eltorito">>
                    /\ boot.rc \in {-EIO, -ENOEXEC, -ENOTSUP}
          /\ boot.pc \in {"failed", "returned"} => boot.rc < 0
          /\ last.op = "boot" => last.rc < 0)
    /\ [][ /\ boot'.pc = "catalog"
                 => boot.pc = "mbr_check" /\ boot'.rc \in {-EIO, -ENOEXEC}
           /\ (boot'.jumped # <<>> /\ boot.jumped = <<>>)
                 => boot.pc = "jump" /\ boot.rc = 0
         ]_vars

\* C24 happens: both paths were tried, the image was booted at 1000:0000
\* and its code gave control back
C24_Witness ==
    /\ boot.pc = "returned"
    /\ boot.path = "eltorito"
    /\ boot.jumped = <<4096, 0>>
    /\ boot.rc = -ECANCELED

\* the catalog passes the three checks of the El Torito path
ValidCatalog(c) ==
    /\ c.platform_id = ELTORITO_PLATFORM_X86
    /\ c.indicator = ELTORITO_BOOTABLE
    /\ c.media_type = ELTORITO_NO_EMULATION

\* C25: on the El Torito path with a valid catalog the extended read of
\* the boot image transfers exactly the sector count of the boot entry,
\* from its start block, for every 16-bit count; a catalog that fails one of
\* the three checks causes no image read and no transfer of control.
C25_ImageRead ==
    /\ (boot.pc = "image_check" /\ Dispatched)
           => /\ Len(last.io) = 1
              /\ last.io[1].op = "read"
              /\ last.io[1].count = W(boot.catalog.length)
              /\ last.io[1].lba = boot.catalog.start
    /\ boot.pc \in {"image", "image_check"} => ValidCatalog(boot.catalog)
    /\ (boot.tried = <<"mbr", "eltorito">> /\ ~ValidCatalog(boot.catalog))
           => /\ boot.image_io = <<>>
              /\ boot.jumped = <<>>
              /\ boot.pc \in {"failed", "catalog_check"}

\* a call the handler has returned from in the ordinary way
Called == last.op = "int13" /\ last.fail = "none"

\* the drive number of the call is no registered drive's assigned or
\* natural number
NoNumberMatches ==
    \A i \in Devs : /\ sandevs[i].drive # last.drive
                    /\ sandevs[i].natural_drive # last.drive

\* the specification record of drive d as the only write to the caller
SpecificationOf(d) ==
    <<[what |-> "specification", len |-> CDROM_SPEC_SIZEOF,
       val |-> [size |-> CDROM_SPEC_SIZEOF, drive |-> d.drive]]>>

\* C31: a CD-ROM status/terminate call whose drive number has low seven
\* bits 0x7f and matches no registered number is handled by a registered
\* optical drive and returns the specification record naming that drive's
\* assigned number; the wildcard is accepted for no other command and never
\* selects a non-optical drive; a status/terminate call addressed directly
\* to a non-optical drive returns Invalid and writes no record.
C31_CdromWildcard ==
    /\ (Called /\ Command = INT13_CDROM_STATUS_TERMINATE
        /\ And7f(last.drive) = 127 /\ NoNumberMatches
        /\ \E i \in Devs : sandevs[i].is_cdrom)
           => /\ Dispatched
              /\ Target.is_cdrom
              /\ last.status = 0
              /\ ~last.regs.cf
              /\ last.mem = SpecificationOf(Target)
    /\ (Called /\ Command # INT13_CDROM_STATUS_TERMINATE /\ NoNumberMatches)
           => last.kind = "none"
    /\ (Called /\ Dispatched /\ Target.drive # last.drive)
           => Target.is_cdrom /\ Command = INT13_CDROM_STATUS_TERMINATE
    /\ (Called /\ Command = INT13_CDROM_STATUS_TERMINATE)
           => \A i \in Devs :
                  (sandevs[i].drive = last.drive /\ ~sandevs[i].is_cdrom)
                      => /\ Dispatched
                         /\ last.idx = i
                         /\ last.regs.ah = INT13_STATUS_INVALID
                         /\ last.regs.cf
                         /\ last.mem = <<>>

\* C32: for every extended read or write and every descriptor size byte
\* the caller supplies, the number of bytes copied from the caller's memory
\* into the handler's local disk address never exceeds the size of that
\* structure.
C32_CopyWithinDescriptor ==
    (last.op = "int13" /\ Dispatched /\ ExtRw) => last.copied <= ADDR_SIZEOF

\* the fields of a registered drive that no INT 13 command may change
Identity(d) ==
    <<d.drive, d.natural_drive, d.cylinders, d.heads, d.sectors_per_track,
      d.boot_catalog>>

\* C33: an INT 13 call is dispatched to at most one registered drive: at
\* most one drive's last status changes, and only that of the drive the
\* call was dispatched to; no command changes the set of registered drives
\* nor any drive's assigned number, natural number, cylinders, heads,
\* sectors per track or boot catalog location.
C33_AtMostOneDrive ==
    [][ last'.op = "int13"
          => /\ Len(sandevs') = Len(sandevs)
             /\ \A i \in Devs :
                    /\ Identity(sandevs'[i]) = Identity(sandevs[i])
                    /\ sandevs'[i] # sandevs[i]
                           => last'.kind = "dispatch" /\ last'.idx = i
      ]_vars

\* C33 happens: with two drives registered, a call dispatched to the
\* second has left an error as its last status and the first as it was
C33_Witness ==
    /\ Called
    /\ Dispatched
    /\ Len(sandevs) = 2
    /\ last.idx = 2
    /\ sandevs[2].last_status = -INT13_STATUS_INVALID
    /\ sandevs[1].last_status = 0
    /\ sandevs[1].res = <<>>

\* the last call was a get-last-status made again at once by the caller of
\* a get-last-status to the same drive number
StatusCallAgain == Dispatched /\ last.first # <<>>

\* C34: get-last-status is idempotent: the second of two consecutive
\* get-last-status calls dispatched to the same drive returns the status
\* value and the error indicator the first returned; and a dispatched
\* get-last-status leaves the drive's last status as it was and records
\* what it returned, which is what the last command dispatched to the
\* drive returned, if there was one.
C34_GetLastStatusIdempotent ==
    /\ [](StatusCallAgain => <<last.regs.ah, last.regs.cf>> = last.first)
    /\ [][ (last'.op = "int13" /\ last'.kind = "dispatch"
              /\ last'.regs_in.ah = INT13_GET_LAST_STATUS)
            => LET i == last'.idx
               IN  /\ sandevs'[i].last_status = sandevs[i].last_status
                   /\ sandevs'[i].res = <<last'.regs.ah, last'.regs.cf>>
                   /\ sandevs[i].res # <<>> => sandevs'[i].res = sandevs[i].res
         ]_vars

\* C34 happens: a get-last-status made again at once has reported the
\* read error the first one reported
C34_Witness ==
    /\ StatusCallAgain
    /\ last.first = <<INT13_STATUS_READ_ERROR, TRUE>>
    /\ last.regs.ah = INT13_STATUS_READ_ERROR
    /\ Target.last_status = -INT13_STATUS_READ_ERROR

\* the bits of an equipment word other than bit 0 and bits 7:6
OtherBits(ew) == [b \in (0..15) \ {0, 6, 7} |-> (ew \div 2^b) % 2]

\* C35: at the end of every hook and every INT 13 call the cached
\* equipment word and the cached fixed-disk count equal the values in the
\* BIOS Data Area; and no hook or call, whether it synchronises the
\* counters or not, changes a bit of the firmware equipment word other
\* than bit 0 and bits 7:6.
C35_CacheMatchesFirmware ==
    /\ [](last.op \in {"hook", "int13"}
            => /\ equipment_word = bda_equipment_word
               /\ num_drives = bda_num_drives)
    /\ [][ last'.op \in {"hook", "int13"}
            => OtherBits(bda_equipment_word') = OtherBits(bda_equipment_word)
         ]_vars

\* C35 happens: a call has found the firmware values rewritten to a word
\* of four floppy drives with bits 1 and 5 set, and its synchronisation
\* for a fifth floppy drive has left the floppy bits changed, bits 1 and 5
\* set, and the cached values equal to the firmware's
C35_Witness ==
    /\ Called
    /\ last.synced
    /\ bda_equipment_word = 35
    /\ equipment_word = 35
    /\ num_drives = bda_num_drives
    /\ \E i \in Devs : sandevs[i].drive = 4

====
